---- MODULE Spec2Model ----
(***************************************************************************)
(* Model of the TurboBulk client (src/src/turbobulk_client/client.py):     *)
(* load, delete and export calls of one TurboBulkClient against the        *)
(* remote bulk-job service, the polling loop _wait_for_job and the export  *)
(* download step.  The remote service is the environment: it answers the   *)
(* requests, drives the jobs and owns the export cache.                    *)
(* A second specification, SpecTopo, models the topology generator         *)
(* GPUDatacenterTopology (src/examples/common/topology.py): a topology is  *)
(* constructed and generate_devices, generate_interfaces, generate_cables  *)
(* and update_terminations_with_cable_ids are applied in workflow order.   *)
(* Further specifications: SpecDryRun (validate, load and delete),         *)
(* SpecWait and SpecWaitLive (_wait_for_job called on its own),            *)
(* SpecTemplate (get_template), SpecSeq (calls one after the other),       *)
(* SpecPush (the cable push of the examples) and SpecMulti (two clients).  *)
(***************************************************************************)
EXTENDS Integers, Sequences, FiniteSets, TLC

(***************************************************************************)
(* Bounds of the model.                                                    *)
(***************************************************************************)
NumTemp == 2           \* names mkstemp can hand out
MaxTimeout == 1        \* timeout argument ranges over 0..MaxTimeout
MaxPollInterval == 1   \* poll_interval argument ranges over 1..MaxPollInterval
MaxPollTime == 1       \* a status request takes 0..MaxPollTime ticks
MaxWaitTimeout == 2    \* a direct wait: timeout ranges over 0..MaxWaitTimeout
MaxFields == 3         \* get_template: a schema has 0..MaxFields fields
MaxCalls == 2          \* a program makes up to MaxCalls calls, one after the other
MaxInterfaces == 4     \* cable push: 0..MaxInterfaces interfaces are found, two per cable
MaxItems == 4          \* rest_get_all: the endpoint lists 0..MaxItems objects
MaxFetches == 6        \* rest_get_all: the model follows a call for MaxFetches requests
MaxDim == 2            \* topology: pods, spines, leaves, servers and NICs range over 1..MaxDim
MaxDrop == 3           \* binding: position of the cable label missing from the map, 0..MaxDrop

CacheKeys == {"k1", "k2"}

VARIABLES
    pc,          \* position of the client: idle, loop, sleep, download, returned, raised
    args,        \* arguments of the call in progress (or of the last call)
    log,         \* requests sent by this call, in order, with their answers
    result,      \* dict returned by the call (when pc = "returned")
    err,         \* exception raised by the call (when pc = "raised")
    job_id,      \* local job_id of the call
    job_result,  \* export: snapshot returned by _wait_for_job, or the cache-hit result
    start_time,  \* _wait_for_job: start_time
    now,         \* time.time()
    jobs,        \* service: the jobs, in order of creation
    cache,       \* service: key of the valid export cache entry, "" when there is none
    download_url, \* export: URL the file is fetched from
    files,       \* local file system: content per path, <<>> when the file does not exist
    topo,        \* generator: the GPUDatacenterTopology instance
    stage,       \* generator: which of its methods have been applied
    devices,     \* generate_devices: devices['name']
    device_id_map, \* device name -> device ID, as fetched from the service
    interfaces,  \* generate_interfaces: rows (device_id, name)
    interface_map, \* "device:interface" -> interface ID, as fetched from the service
    cables,      \* generate_cables: rows of cables (label, color)
    staging,     \* generate_cables: termination_staging
    terminations, \* generate_cables: rows of terminations
    label_to_cable_id, \* cable label -> cable ID, as fetched from the service
    updated,     \* update_terminations_with_cable_ids: rows of bound terminations
    history,     \* the calls the caller has finished, in order, with their outcome
    wf,          \* cmd_push: its position between the client calls it makes
    sched,       \* several clients: the running client and the suspended ones
    tmpl,        \* get_template: the schema, the flag and the template returned
    pager        \* rest_get_all: the server, the query parameters, the results so far

cvars == <<pc, args, log, result, err, job_id, job_result, start_time, now,
           jobs, cache, download_url, files>>

tvars == <<topo, stage, devices, device_id_map, interfaces, interface_map,
           cables, staging, terminations, label_to_cable_id, updated>>

xvars == <<history, wf, sched, tmpl, pager>>

vars == <<pc, args, log, result, err, job_id, job_result, start_time, now,
          jobs, cache, download_url, files,
          topo, stage, devices, device_id_map, interfaces, interface_map,
          cables, staging, terminations, label_to_cable_id, updated,
          history, wf, sched, tmpl, pager>>

(***************************************************************************)
(* Values.                                                                 *)
(***************************************************************************)
\* A JSON dict of the API; "absent", "", <<>> and 0 stand for a missing key.
EmptyDict ==
    [status_code |-> 0, cached |-> "absent", job_id |-> "", status |-> "",
     download_url |-> <<>>, file_url |-> <<>>, cache_key |-> "",
     error |-> "", path |-> 0]

\* Python truthiness of dict.get("cached")
Truthy(v) == v = "true"

\* Local paths: 0 is None, 1 is the caller's output_path, the others are
\* names mkstemp can hand out.
OutputPath == 1
TempPaths == 2 .. (1 + NumTemp)
Paths == {OutputPath} \cup TempPaths

base_url == "http://netbox"
api_base == <<base_url, "/", "api/plugins/turbobulk">>

\* exceptions.py: the class hierarchy
ParentClass ==
    [TurboBulkError |-> "Exception", JobFailedError |-> "TurboBulkError",
     HTTPError |-> "Exception", KeyboardInterrupt |-> "Exception",
     Exception |-> "Exception"]

RECURSIVE IsInstance(_, _)
IsInstance(class, base) ==
    IF class = base THEN TRUE
    ELSE IF class = "Exception" THEN FALSE
    ELSE IsInstance(ParentClass[class], base)

NoErr == [class |-> "", message |-> "", job_result |-> EmptyDict]

TurboBulkError(message) ==
    [class |-> "TurboBulkError", message |-> message, job_result |-> EmptyDict]

JobFailedError_NoSnapshot(message, jr) ==
    [class |-> "JobFailedError", message |-> message, job_result |-> EmptyDict]

JobFailedError(message, jr) ==
    [class |-> "JobFailedError", message |-> message, job_result |-> jr]

\* response.raise_for_status() on an error status, or a failed connection
HTTPError == [class |-> "HTTPError", message |-> "transport", job_result |-> EmptyDict]

KeyboardInterrupt ==
    [class |-> "KeyboardInterrupt", message |-> "interrupt", job_result |-> EmptyDict]

(***************************************************************************)
(* The remote service (not part of the client's source): its answers       *)
(* follow the interface and the cache protocol it is specified with.       *)
(***************************************************************************)
JobId(n) == "j" \o ToString(n)

JobIndex(id) == CHOOSE n \in 1 .. Len(jobs) : JobId(n) = id

NewJob(kind, dry) ==
    [kind |-> kind, status |-> "pending", dry_run |-> dry, api |-> "none"]

\* form / JSON fields of a submission; "absent", FALSE and "" are missing keys
NoData ==
    [dry_run |-> "absent", force_refresh |-> FALSE, check_cache_only |-> FALSE,
     client_cache_key |-> "", model |-> "", filters |-> ""]

\* POST /load/ and POST /delete/: an immediate result, or a pending job; an
\* immediate result that is no dry run has changed the data, and the cached
\* export is no longer valid
ServerSubmit(kind, data, immediate) ==
    IF immediate
    THEN [code |-> 200, body |-> [EmptyDict EXCEPT !.status = "completed"],
          jobs |-> jobs,
          cache |-> IF data.dry_run = "true" THEN cache ELSE ""]
    ELSE [code |-> 202,
          body |-> [EmptyDict EXCEPT !.job_id = JobId(Len(jobs) + 1),
                                     !.status = "pending"],
          jobs |-> Append(jobs, NewJob(kind, data.dry_run = "true")),
          cache |-> cache]

CacheUrl(key) == <<"/", "media/turbobulk/exports", key>>

\* POST /export/: the four-outcome cache protocol
ServerExport(data) ==
    IF data.client_cache_key # "" /\ data.client_cache_key = cache
    THEN [code |-> 304, body |-> EmptyDict, jobs |-> jobs]
    ELSE IF cache # "" /\ ~data.force_refresh
    THEN [code |-> 200,
          body |-> [EmptyDict EXCEPT !.cached = "true", !.cache_key = cache,
                                     !.download_url = CacheUrl(cache)],
          jobs |-> jobs]
    ELSE IF data.check_cache_only
    THEN [code |-> 200, body |-> [EmptyDict EXCEPT !.cached = "false"],
          jobs |-> jobs]
    ELSE [code |-> 202,
          body |-> [EmptyDict EXCEPT !.job_id = JobId(Len(jobs) + 1),
                                     !.status = "pending"],
          jobs |-> Append(jobs, NewJob("export", FALSE))]

\* the answer the client receives: the service's, or an error status (or no
\* connection) that leaves the service as it was
Answer(srv, ok) ==
    IF ok THEN srv
    ELSE [code |-> 500, body |-> EmptyDict, jobs |-> jobs, cache |-> cache]

\* GET /jobs/{id}/: the snapshot of the job
ServerStatus(id) ==
    LET j == jobs[JobIndex(id)]
        done == j.kind = "export" /\ j.status = "completed"
    IN  [EmptyDict EXCEPT
            !.status = j.status,
            !.download_url = IF done /\ j.api \in {"new", "both"}
                             THEN <<"/", "api/plugins/turbobulk/jobs", id, "download/">>
                             ELSE <<>>,
            !.file_url = IF done /\ j.api \in {"legacy", "both"}
                         THEN <<base_url, "/", "media/turbobulk", id>>
                         ELSE <<>>,
            !.error = IF j.status \in {"errored", "failed"} THEN "boom" ELSE ""]

\* GET of a download URL: the content is identified by the URL it came from
ServerDownload(url) == url

\* The service drives a job: pending -> running -> completed | errored | failed.
\* A completed export leaves a valid cache entry; a committed load or delete
\* changes the data and invalidates it.
NewKey(key) == IF key = "k1" THEN "k2" ELSE "k1"

ServerStep(n, s, api) ==
    /\ n \in 1 .. Len(jobs)
    /\ \/ /\ jobs[n].status = "pending"
          /\ s = "running" /\ api = "none"
       \/ /\ jobs[n].status = "running"
          /\ s \in {"completed", "errored", "failed"}
          /\ (s = "completed" /\ jobs[n].kind = "export") \/ api = "none"
    /\ jobs' = [jobs EXCEPT ![n].status = s, ![n].api = api]
    /\ cache' = IF s # "completed" THEN cache
                ELSE IF jobs[n].kind = "export" THEN NewKey(cache)
                ELSE IF jobs[n].dry_run THEN cache
                ELSE ""
    /\ UNCHANGED <<pc, args, log, result, err, job_id, job_result, start_time,
                   now, download_url, files>>
    /\ UNCHANGED tvars
    /\ UNCHANGED xvars

(***************************************************************************)
(* The client.                                                             *)
(***************************************************************************)
NoArgs ==
    [op |-> "none", exists |-> TRUE, dry_run |-> FALSE, wait |-> TRUE,
     poll_interval |-> 0, timeout |-> 0, force_refresh |-> FALSE,
     check_cache_only |-> FALSE, client_cache_key |-> "", output_path |-> 0,
     model |-> "", filters |-> "", entry |-> ""]

FileArgs(op) ==
    {[NoArgs EXCEPT !.op = op, !.entry = op, !.exists = e, !.dry_run = d, !.wait = w,
                    !.poll_interval = i, !.timeout = t] :
        e \in BOOLEAN, d \in BOOLEAN, w \in BOOLEAN,
        i \in 1 .. MaxPollInterval, t \in 0 .. MaxTimeout}

ExportArgs ==
    {[NoArgs EXCEPT !.op = "export", !.entry = "export", !.wait = w, !.poll_interval = i,
                    !.timeout = t, !.force_refresh = f, !.check_cache_only = c,
                    !.client_cache_key = k, !.output_path = o] :
        w \in BOOLEAN, i \in 1 .. MaxPollInterval, t \in 0 .. MaxTimeout,
        f \in BOOLEAN, c \in BOOLEAN, k \in {""} \cup CacheKeys,
        o \in {0, OutputPath}}

\* one request of the call and its answer, as the call saw it
Exchange(kind, method, url, data, ok, code, body) ==
    [kind |-> kind, method |-> method, url |-> url, data |-> data, ok |-> ok,
     code |-> code, body |-> body]

raise_for_status_Swallow(ok) == FALSE

\* response.raise_for_status(): TRUE when it raises
raise_for_status(ok) == ~ok

PathExists_Unchecked(a) == TRUE

\* data_path.exists()
PathExists(a) == a.exists

LoadData_FalseField(a) ==
    [NoData EXCEPT !.model = a.model,
                   !.dry_run = IF a.dry_run THEN "true" ELSE "false"]

\* the form data of load
LoadData(a) ==
    [NoData EXCEPT !.model = a.model,
                   !.dry_run = IF a.dry_run THEN "true" ELSE "absent"]

\* the form data of delete
DeleteData(a) ==
    [NoData EXCEPT !.model = a.model,
                   !.dry_run = IF a.dry_run THEN "true" ELSE "absent"]

ExportData_NoCheckOnly(a) ==
    [NoData EXCEPT !.model = a.model, !.filters = a.filters,
                   !.force_refresh = a.force_refresh,
                   !.client_cache_key = a.client_cache_key]

ExportData_NoClientKey(a) ==
    [NoData EXCEPT !.model = a.model, !.filters = a.filters,
                   !.force_refresh = a.force_refresh,
                   !.check_cache_only = a.check_cache_only]

ExportData_NoForce(a) ==
    [NoData EXCEPT !.model = a.model, !.filters = a.filters,
                   !.check_cache_only = a.check_cache_only,
                   !.client_cache_key = a.client_cache_key]

\* the JSON data of export
ExportData(a) ==
    [NoData EXCEPT !.model = a.model, !.filters = a.filters,
                   !.force_refresh = a.force_refresh,
                   !.check_cache_only = a.check_cache_only,
                   !.client_cache_key = a.client_cache_key]

\* the caller makes a call
StartCall(a) ==
    /\ pc = "idle"
    /\ UNCHANGED tvars
    /\ UNCHANGED xvars
    /\ args' = a
    /\ UNCHANGED now

Return(r) ==
    /\ pc' = "returned" /\ result' = r /\ err' = NoErr
    /\ job_result' = EmptyDict /\ download_url' = <<>>

Raise(e) ==
    /\ pc' = "raised" /\ err' = e /\ result' = EmptyDict
    /\ job_result' = EmptyDict /\ download_url' = <<>>

\* the call of self._wait_for_job(job_id, ...): start_time = time.time()
EnterWait(id) ==
    /\ pc' = "loop" /\ job_id' = id /\ start_time' = now'
    /\ result' = EmptyDict /\ err' = NoErr
    /\ job_result' = EmptyDict /\ download_url' = <<>>

ReturnsResult_JobOnly(a, body) == body.job_id = ""

ReturnsResult_DryRun(a, body) == a.dry_run \/ ~a.wait \/ body.job_id = ""

\* load and delete: if not wait: return result; if not job_id: return result
ReturnsResult(a, body) == ~a.wait \/ body.job_id = ""

\* load and delete up to the wait: the file check, the upload, the early returns
Submission(op, a, data, immediate, ok) ==
    LET srv == Answer(ServerSubmit(op, data, immediate), ok)
        url == api_base \o <<op \o "/">>
    IN  /\ UNCHANGED files
        /\ IF ~PathExists(a)
           THEN /\ Raise(TurboBulkError("Data file not found"))
                /\ log' = <<>>
                /\ job_id' = "" /\ start_time' = 0
                /\ UNCHANGED <<jobs, cache>>
           ELSE /\ log' = <<Exchange("submit", "POST", url, data, ok, srv.code, srv.body)>>
                /\ jobs' = srv.jobs
                /\ cache' = srv.cache
                /\ IF raise_for_status(ok)
                   THEN /\ Raise(HTTPError)
                        /\ job_id' = "" /\ start_time' = 0
                   ELSE /\ IF ReturnsResult(a, srv.body)
                           THEN /\ Return(srv.body)
                                /\ job_id' = "" /\ start_time' = 0
                           ELSE EnterWait(srv.body.job_id)

SubmitFile(op, a, data, immediate, ok) ==
    /\ StartCall(a)
    /\ Submission(op, a, data, immediate, ok)

load(a, immediate, ok) ==
    /\ pc = "idle"
    /\ a.op = "load"
    /\ SubmitFile("load", a, LoadData(a), immediate, ok)

delete(a, immediate, ok) ==
    /\ pc = "idle"
    /\ a.op = "delete"
    /\ SubmitFile("delete", a, DeleteData(a), immediate, ok)

\* the arguments validate accepts: those of load without dry_run
ValidateArgs ==
    {[NoArgs EXCEPT !.op = "validate", !.entry = "validate", !.exists = e, !.wait = w,
                    !.poll_interval = i, !.timeout = t] :
        e \in BOOLEAN, w \in BOOLEAN,
        i \in 1 .. MaxPollInterval, t \in 0 .. MaxTimeout}

LoadArgsOfValidate_AsGiven(a) == [a EXCEPT !.op = "load"]

\* validate: return self.load(..., dry_run=True, ...)
LoadArgsOfValidate(a) == [a EXCEPT !.op = "load", !.dry_run = TRUE]

validate(a, immediate, ok) ==
    /\ pc = "idle"
    /\ a.op = "validate"
    /\ load(LoadArgsOfValidate(a), immediate, ok)

\* export up to the wait or the download
export(a, ok) ==
    LET data == ExportData(a)
        srv == Answer(ServerExport(data), ok)
        url == api_base \o <<"export/">>
        r304 == [srv.body EXCEPT !.status_code = 304, !.cached = "true"]
        res == [srv.body EXCEPT !.status_code = srv.code]
    IN  /\ a.op = "export"
        /\ StartCall(a)
        /\ UNCHANGED <<cache, files>>
        /\ log' = <<Exchange("submit", "POST", url, data, ok, srv.code, srv.body)>>
        /\ jobs' = srv.jobs
        /\ IF srv.code = 304
           THEN Return(r304) /\ job_id' = "" /\ start_time' = 0
           ELSE IF raise_for_status(ok)
           THEN Raise(HTTPError) /\ job_id' = "" /\ start_time' = 0
           ELSE /\ IF a.check_cache_only
                   THEN Return(res) /\ job_id' = "" /\ start_time' = 0
                   ELSE IF srv.code = 200 /\ Truthy(res.cached)
                   THEN IF res.download_url # <<>>
                        THEN /\ pc' = "download"
                             /\ job_result' = res
                             /\ download_url' = res.download_url
                             /\ result' = EmptyDict /\ err' = NoErr
                             /\ job_id' = "" /\ start_time' = 0
                        ELSE Return(res) /\ job_id' = "" /\ start_time' = 0
                   ELSE IF ~a.wait
                   THEN Return(res) /\ job_id' = "" /\ start_time' = 0
                   ELSE IF res.job_id = ""
                   THEN /\ Raise(TurboBulkError("No job_id in export response"))
                        /\ job_id' = "" /\ start_time' = 0
                   ELSE EnterWait(res.job_id)

FreshDownloadUrl_NoLegacy(jr, id) ==
    IF jr.download_url # <<>> THEN jr.download_url
    ELSE api_base \o <<"jobs", id, "download/">>

\* export after the wait: the URL the exported file is fetched from
FreshDownloadUrl(jr, id) ==
    IF jr.download_url # <<>> THEN jr.download_url
    ELSE IF jr.file_url # <<>> THEN jr.file_url
    ELSE api_base \o <<"jobs", id, "download/">>

DeadlinePassed_Late(elapsed, timeout) == elapsed > timeout + 1

DeadlinePassed_Early(elapsed, timeout) == elapsed >= timeout

\* the deadline test at the start of an iteration
DeadlinePassed(elapsed, timeout) == elapsed > timeout

Completed_OrErrored(status) == status \in {"completed", "errored"}

Completed_OrMissing(status) == status \in {"completed", ""}

\* the test that ends the wait with a result
Completed(status) == status = "completed"

ElapsedAtCheck_AfterPoll(t, start, d) == t + d - start

\* elapsed = time.time() - start_time, read before the status request
ElapsedAtCheck(t, start, d) == t - start

\* one iteration of the loop of _wait_for_job, up to the sleep; d is the time
\* the status request takes
WaitIteration(d, ok) ==
    LET elapsed == ElapsedAtCheck(now, start_time, d)
        snap == IF ok THEN ServerStatus(job_id) ELSE EmptyDict
        url == api_base \o <<"jobs", job_id>>
        status == snap.status
    IN  /\ pc = "loop"
        /\ UNCHANGED <<args, job_id, start_time, jobs, cache, files>>
        /\ UNCHANGED tvars
        /\ UNCHANGED xvars
        /\ IF DeadlinePassed(elapsed, args.timeout)
           THEN /\ Raise(TurboBulkError("timed out"))
                /\ UNCHANGED <<log, now>>
           ELSE /\ log' = Append(log, Exchange("status", "GET", url, NoData, ok, IF ok THEN 200 ELSE 500, snap))
                /\ now' = now + d
                /\ IF raise_for_status(ok)
                   THEN Raise(HTTPError)
                   ELSE IF Completed(status)
                   THEN IF args.op = "export"
                        THEN /\ pc' = "download"
                             /\ job_result' = snap
                             /\ download_url' = FreshDownloadUrl(snap, job_id)
                             /\ UNCHANGED <<result, err>>
                        ELSE Return(snap)
                   ELSE IF status = "errored" \/ status = "failed"
                   THEN Raise(JobFailedError("Job failed", snap))
                   ELSE /\ pc' = "sleep"
                        /\ UNCHANGED <<result, err, job_result, download_url>>

_wait_for_job(d, ok) ==
    /\ pc = "loop"
    /\ WaitIteration(d, ok)

\* time.sleep(poll_interval) at the end of an iteration
Sleep ==
    /\ pc = "sleep"
    /\ pc' = "loop"
    /\ now' = now + args.poll_interval
    /\ UNCHANGED <<args, log, result, err, job_id, job_result, start_time,
                   jobs, cache, download_url, files>>
    /\ UNCHANGED tvars
    /\ UNCHANGED xvars

Interrupt_Cancel ==
    /\ pc = "sleep"
    /\ Raise(KeyboardInterrupt)
    /\ jobs' = [jobs EXCEPT ![JobIndex(job_id)].status = "failed"]
    /\ log' = Append(log, Exchange("cancel", "DELETE", api_base \o <<"jobs", job_id>>,
                                   NoData, TRUE, 200, EmptyDict))
    /\ UNCHANGED <<args, job_id, start_time, now, cache, files>>
    /\ UNCHANGED tvars
    /\ UNCHANGED xvars

\* the caller interrupts the wait while the client sleeps
Interrupt ==
    /\ pc = "sleep"
    /\ Raise(KeyboardInterrupt)
    /\ UNCHANGED <<args, log, job_id, start_time, now, jobs, cache, files>>
    /\ UNCHANGED tvars
    /\ UNCHANGED xvars

CacheHitResult_NoPath(res, output_path) == res

\* export, cache hit: result["path"] = output_path
CacheHitResult(res, output_path) == [res EXCEPT !.path = output_path]

\* export, after the job: job_result["path"] = output_path, ["cached"] = False
FreshResult(jr, output_path) == [jr EXCEPT !.path = output_path, !.cached = "false"]

mkstemp_Reuse(tmp) == tmp \in TempPaths

\* tempfile.mkstemp: creates a file under a name no existing file has
mkstemp(tmp) == tmp \in TempPaths /\ files[tmp] = <<>>

WriteFile_Cleanup(f, path, content) ==
    [p \in DOMAIN f |-> IF p = path THEN content
                        ELSE IF p \in TempPaths THEN <<>> ELSE f[p]]

\* open(output_path, "wb").write(content)
WriteFile(f, path, content) == [f EXCEPT ![path] = content]

FilesAfterDownload_WriteFirst(f, output_path, content, ok) ==
    WriteFile(f, output_path, content)

\* _download_export_file: raise_for_status comes before mkstemp and open, so a
\* failed request touches no file
FilesAfterDownload(f, output_path, content, ok) ==
    IF raise_for_status(ok) THEN f ELSE WriteFile(f, output_path, content)

\* _download_export_file and the end of export; tmp is the name mkstemp picks
_download_export_file(tmp, ok) ==
    LET url == IF Head(download_url) = "/"
               THEN <<base_url>> \o download_url
               ELSE download_url
        content == ServerDownload(url)
        output_path == IF args.output_path = 0 THEN tmp ELSE args.output_path
        fresh == job_id # ""
    IN  /\ pc = "download"
        /\ args.output_path # 0 \/ raise_for_status(ok) \/ mkstemp(tmp)
        /\ files' = FilesAfterDownload(files, output_path, content, ok)
        /\ log' = Append(log, Exchange("download", "GET", url, NoData, ok, IF ok THEN 200 ELSE 500, EmptyDict))
        /\ UNCHANGED <<args, job_id, start_time, now, jobs, cache>>
        /\ UNCHANGED tvars
        /\ UNCHANGED xvars
        /\ IF raise_for_status(ok)
           THEN Raise(HTTPError)
           ELSE Return(IF fresh THEN FreshResult(job_result, output_path)
                                ELSE CacheHitResult(job_result, output_path))

(***************************************************************************)
(* The topology generator (src/examples/common/topology.py).               *)
(***************************************************************************)
None == -1

\* dict.get(key)
Get(m, k) == IF k \in DOMAIN m THEN m[k] ELSE None

prefix == "gpu-dc"

SpinePortChoices == {2, 4}
LeafPortChoices == {1, 4, 8}

\* the instances of GPUDatacenterTopology the model draws from
Topologies ==
    [pods : 1 .. MaxDim, spines_per_pod : 1 .. MaxDim, leaves_per_pod : 1 .. MaxDim,
     gpu_servers_per_leaf : 1 .. MaxDim, nics_per_gpu_server : 1 .. MaxDim,
     spine_ports : SpinePortChoices, leaf_ports : LeafPortChoices]

total_spines(t) == t.pods * t.spines_per_pod

total_leaves(t) == t.pods * t.leaves_per_pod

total_gpu_servers(t) == total_leaves(t) * t.gpu_servers_per_leaf

total_devices(t) == total_spines(t) + total_leaves(t) + total_gpu_servers(t)

leaf_uplinks_Single(t) == t.spines_per_pod

leaf_uplinks(t) == t.spines_per_pod * 2

leaf_downlinks_Ports(t) == t.leaf_ports

leaf_downlinks(t) == t.leaf_ports - leaf_uplinks(t)

estimated_cables(t) ==
    LET spine_leaf == total_leaves(t) * leaf_uplinks(t)
        leaf_server == total_gpu_servers(t) * t.nics_per_gpu_server
    IN  spine_leaf + leaf_server

\* f'{n:0{w}d}' for n >= 0
RECURSIVE ZeroPad(_, _)
ZeroPad(str, w) == IF Len(str) >= w THEN str ELSE ZeroPad("0" \o str, w)

Fmt02d(n) == ZeroPad(ToString(n), 2)

Fmt06d(n) == ZeroPad(ToString(n), 6)

SpineName(pod, sp) == prefix \o "-spine-p" \o Fmt02d(pod) \o "-s" \o Fmt02d(sp)

LeafName(pod, l) == prefix \o "-leaf-p" \o Fmt02d(pod) \o "-r" \o Fmt02d(l)

GpuName_NoLeaf(pod, l, g) == prefix \o "-gpu-p" \o Fmt02d(pod) \o "-u" \o Fmt02d(g)

GpuName(pod, l, g) ==
    prefix \o "-gpu-p" \o Fmt02d(pod) \o "-r" \o Fmt02d(l) \o "-u" \o Fmt02d(g)

Eth(n) == "eth" \o ToString(n)

IfaceKey_NoDevice(device_name, iface_name) == iface_name

IfaceKey(device_name, iface_name) == device_name \o ":" \o iface_name

\* generate_devices: the three loops, appending to devices['name']
RECURSIVE SpineDevices(_, _, _, _)
SpineDevices(t, pod, sp, acc) ==
    IF pod >= t.pods THEN acc
    ELSE IF sp >= t.spines_per_pod THEN SpineDevices(t, pod + 1, 0, acc)
    ELSE SpineDevices(t, pod, sp + 1, Append(acc, SpineName(pod, sp)))

RECURSIVE LeafDevices(_, _, _, _)
LeafDevices(t, pod, l, acc) ==
    IF pod >= t.pods THEN acc
    ELSE IF l >= t.leaves_per_pod THEN LeafDevices(t, pod + 1, 0, acc)
    ELSE LeafDevices(t, pod, l + 1, Append(acc, LeafName(pod, l)))

RECURSIVE GpuDevices(_, _, _, _, _)
GpuDevices(t, pod, l, g, acc) ==
    IF pod >= t.pods THEN acc
    ELSE IF l >= t.leaves_per_pod THEN GpuDevices(t, pod + 1, 0, 0, acc)
    ELSE IF g >= t.gpu_servers_per_leaf THEN GpuDevices(t, pod, l + 1, 0, acc)
    ELSE GpuDevices(t, pod, l, g + 1, Append(acc, GpuName(pod, l, g)))

DeviceNames(t) ==
    SpineDevices(t, 0, 0, <<>>) \o LeafDevices(t, 0, 0, <<>>)
        \o GpuDevices(t, 0, 0, 0, <<>>)

\* generate_interfaces, inner loop: for port in range(ports), name eth{port+1}
PortRows(device_id, ports) ==
    [p \in 1 .. ports |-> [device_id |-> device_id, name |-> Eth((p - 1) + 1)]]

\* generate_interfaces: the three loops; a device missing from device_id_map
\* is skipped
RECURSIVE SpineInterfaces(_, _, _, _, _)
SpineInterfaces(t, dmap, pod, sp, acc) ==
    IF pod >= t.pods THEN acc
    ELSE IF sp >= t.spines_per_pod THEN SpineInterfaces(t, dmap, pod + 1, 0, acc)
    ELSE IF Get(dmap, SpineName(pod, sp)) = None
    THEN SpineInterfaces(t, dmap, pod, sp + 1, acc)
    ELSE SpineInterfaces(t, dmap, pod, sp + 1,
            acc \o PortRows(Get(dmap, SpineName(pod, sp)), t.spine_ports))

RECURSIVE LeafInterfaces(_, _, _, _, _)
LeafInterfaces(t, dmap, pod, l, acc) ==
    IF pod >= t.pods THEN acc
    ELSE IF l >= t.leaves_per_pod THEN LeafInterfaces(t, dmap, pod + 1, 0, acc)
    ELSE IF Get(dmap, LeafName(pod, l)) = None
    THEN LeafInterfaces(t, dmap, pod, l + 1, acc)
    ELSE LeafInterfaces(t, dmap, pod, l + 1,
            acc \o PortRows(Get(dmap, LeafName(pod, l)), t.leaf_ports))

RECURSIVE GpuInterfaces(_, _, _, _, _, _)
GpuInterfaces(t, dmap, pod, l, g, acc) ==
    IF pod >= t.pods THEN acc
    ELSE IF l >= t.leaves_per_pod THEN GpuInterfaces(t, dmap, pod + 1, 0, 0, acc)
    ELSE IF g >= t.gpu_servers_per_leaf THEN GpuInterfaces(t, dmap, pod, l + 1, 0, acc)
    ELSE IF Get(dmap, GpuName(pod, l, g)) = None
    THEN GpuInterfaces(t, dmap, pod, l, g + 1, acc)
    ELSE GpuInterfaces(t, dmap, pod, l, g + 1,
            acc \o PortRows(Get(dmap, GpuName(pod, l, g)), t.nics_per_gpu_server))

InterfaceRows(t, dmap) ==
    SpineInterfaces(t, dmap, 0, 0, <<>>) \o LeafInterfaces(t, dmap, 0, 0, <<>>)
        \o GpuInterfaces(t, dmap, 0, 0, 0, <<>>)

\* generate_cables: spine_port = (l * 2 + redundant) % self.spine_ports + 1
SpinePort_NoRedundancy(t, l, redundant) == ((l * 2) % t.spine_ports) + 1

SpinePort(t, l, redundant) == ((l * 2 + redundant) % t.spine_ports) + 1

\* generate_cables: downlink_port = self.leaf_uplinks + 1
FirstDownlinkPort_Zero(t) == leaf_uplinks(t)

FirstDownlinkPort(t) == leaf_uplinks(t) + 1

\* generate_cables, spine-to-leaf loop, one leaf: for each spine of the pod
\* and each of the 2 redundant links, a row (label, leaf_iface, spine_iface);
\* uplink_port and cable_idx advance with every row
RECURSIVE LeafFabricCables(_, _, _, _, _, _, _)
LeafFabricCables(t, pod, l, sp, redundant, uplink_port, cable_idx) ==
    IF sp >= t.spines_per_pod THEN <<>>
    ELSE IF redundant >= 2
    THEN LeafFabricCables(t, pod, l, sp + 1, 0, uplink_port, cable_idx)
    ELSE LET leaf_iface == IfaceKey(LeafName(pod, l), Eth(uplink_port))
             spine_port == SpinePort(t, l, redundant)
             spine_iface == IfaceKey(SpineName(pod, sp), Eth(spine_port))
             label == prefix \o "-fab-" \o Fmt06d(cable_idx)
         IN  <<[label |-> label, color |-> "00ff00",
                a_key |-> leaf_iface, b_key |-> spine_iface]>>
             \o LeafFabricCables(t, pod, l, sp, redundant + 1, uplink_port + 1,
                                 cable_idx + 1)

\* generate_cables, spine-to-leaf loop: every leaf of every pod, uplink_port
\* starting again at 1 for each leaf, cable_idx running on
RECURSIVE FabricCables(_, _, _, _)
FabricCables(t, pod, l, cable_idx) ==
    IF pod >= t.pods THEN <<>>
    ELSE IF l >= t.leaves_per_pod THEN FabricCables(t, pod + 1, 0, cable_idx)
    ELSE LET rows == LeafFabricCables(t, pod, l, 0, 0, 1, cable_idx)
         IN  rows \o FabricCables(t, pod, l + 1, cable_idx + Len(rows))

\* generate_cables, leaf-to-server loop, one leaf: for each server on the leaf
\* and each NIC, a row (label, leaf_iface, gpu_iface); downlink_port and
\* cable_idx advance with every row
RECURSIVE LeafServerCables(_, _, _, _, _, _, _)
LeafServerCables(t, pod, l, g, nic, downlink_port, cable_idx) ==
    IF g >= t.gpu_servers_per_leaf THEN <<>>
    ELSE IF nic >= t.nics_per_gpu_server
    THEN LeafServerCables(t, pod, l, g + 1, 0, downlink_port, cable_idx)
    ELSE LET leaf_iface == IfaceKey(LeafName(pod, l), Eth(downlink_port))
             gpu_iface == IfaceKey(GpuName(pod, l, g), Eth(nic + 1))
             label == prefix \o "-srv-" \o Fmt06d(cable_idx)
         IN  <<[label |-> label, color |-> "0000ff",
                a_key |-> leaf_iface, b_key |-> gpu_iface]>>
             \o LeafServerCables(t, pod, l, g, nic + 1, downlink_port + 1,
                                 cable_idx + 1)

\* generate_cables, leaf-to-server loop: every leaf of every pod, downlink_port
\* starting again after the uplinks for each leaf, cable_idx running on
RECURSIVE ServerCables(_, _, _, _)
ServerCables(t, pod, l, cable_idx) ==
    IF pod >= t.pods THEN <<>>
    ELSE IF l >= t.leaves_per_pod THEN ServerCables(t, pod + 1, 0, cable_idx)
    ELSE LET rows == LeafServerCables(t, pod, l, 0, 0, FirstDownlinkPort(t), cable_idx)
         IN  rows \o ServerCables(t, pod, l + 1, cable_idx + Len(rows))

\* termination_staging after both loops; cable_idx runs on from the first loop
TerminationStaging(t) ==
    LET fabric == FabricCables(t, 0, 0, 0)
    IN  fabric \o ServerCables(t, 0, 0, Len(fabric))

\* generate_cables, last loop: the staged cables whose two ends both resolve
Resolved(stg, imap) ==
    SelectSeq(stg, LAMBDA c : Get(imap, c.a_key) # None /\ Get(imap, c.b_key) # None)

\* generate_cables, last loop: an A row then a B row per resolved cable
BuildTerminations(stg, imap, ct_id) ==
    LET kept == Resolved(stg, imap)
    IN  [i \in 1 .. 2 * Len(kept) |->
            LET c == kept[(i + 1) \div 2]
            IN  IF i % 2 = 1
                THEN [cable_id |-> 0, cable_end |-> "A", termination_type_id |-> ct_id,
                      termination_id |-> Get(imap, c.a_key), _label |-> c.label]
                ELSE [cable_id |-> 0, cable_end |-> "B", termination_type_id |-> ct_id,
                      termination_id |-> Get(imap, c.b_key), _label |-> c.label]]

UpdateTerminations_FirstEnd(terms, l2c) ==
    LET kept == SelectSeq(terms, LAMBDA r : Get(l2c, r._label) # None
                                            /\ (r.cable_end = "A" \/ r._label = terms[1]._label))
    IN  [i \in 1 .. Len(kept) |->
            [cable_id |-> Get(l2c, kept[i]._label),
             cable_end |-> kept[i].cable_end,
             termination_type_id |-> kept[i].termination_type_id,
             termination_id |-> kept[i].termination_id]]

UpdateTerminations_KeepAll(terms, l2c) ==
    [i \in 1 .. Len(terms) |->
        [cable_id |-> Get(l2c, terms[i]._label),
         cable_end |-> terms[i].cable_end,
         termination_type_id |-> terms[i].termination_type_id,
         termination_id |-> terms[i].termination_id]]

\* update_terminations_with_cable_ids: the rows whose label has a cable ID, in
\* order, with that ID and without the label
UpdateTerminations(terms, l2c) ==
    LET kept == SelectSeq(terms, LAMBDA r : Get(l2c, r._label) # None)
    IN  [i \in 1 .. Len(kept) |->
            [cable_id |-> Get(l2c, kept[i]._label),
             cable_end |-> kept[i].cable_end,
             termination_type_id |-> kept[i].termination_type_id,
             termination_id |-> kept[i].termination_id]]

\* ContentType ID of dcim.interface
InterfaceContentTypeId == 7

(***************************************************************************)
(* The service's side of the generator workflow: the IDs it assigns.       *)
(***************************************************************************)
\* name -> ID of the devices the service holds: all generated devices, or all
\* but the first of one tier
DeviceIdMap(names, t, absent) ==
    LET gone == IF absent = "spine" THEN {SpineName(0, 0)}
                ELSE IF absent = "leaf" THEN {LeafName(0, 0)}
                ELSE IF absent = "gpu" THEN {GpuName(0, 0, 0)}
                ELSE {}
        at == [n \in {names[i] : i \in 1 .. Len(names)} |->
                  CHOOSE i \in 1 .. Len(names) : names[i] = n]
    IN  [n \in (DOMAIN at) \ gone |-> 100 + at[n]]

\* "device:interface" -> ID of the interfaces the service holds
InterfaceMap(rows, dmap) ==
    LET name_of == [d \in {dmap[n] : n \in DOMAIN dmap} |->
                       CHOOSE n \in DOMAIN dmap : dmap[n] = d]
        key(i) == IfaceKey(name_of[rows[i].device_id], rows[i].name)
        keys == [i \in 1 .. Len(rows) |-> key(i)]
    IN  [k \in {keys[i] : i \in 1 .. Len(rows)} |->
            1000 + (CHOOSE i \in 1 .. Len(rows) : keys[i] = k)]

\* label -> ID of the cables the service holds: all generated cables, or all
\* but the one at position drop
LabelToCableId(rows, drop) ==
    [lb \in {rows[i].label : i \in (1 .. Len(rows)) \ {drop}} |->
        500 + (CHOOSE i \in 1 .. Len(rows) : rows[i].label = lb)]

(***************************************************************************)
(* The generator as a state machine: its methods applied in workflow order.*)
(***************************************************************************)
NoTopology ==
    /\ topo = [pods |-> 0, spines_per_pod |-> 0, leaves_per_pod |-> 0,
               gpu_servers_per_leaf |-> 0, nics_per_gpu_server |-> 0,
               spine_ports |-> 0, leaf_ports |-> 0]
    /\ stage = "none"
    /\ devices = <<>>
    /\ device_id_map = <<>>
    /\ interfaces = <<>>
    /\ interface_map = <<>>
    /\ cables = <<>>
    /\ staging = <<>>
    /\ terminations = <<>>
    /\ label_to_cable_id = <<>>
    /\ updated = <<>>

generate_devices ==
    /\ stage = "new"
    /\ stage' = "devices"
    /\ devices' = DeviceNames(topo)
    /\ UNCHANGED <<topo, device_id_map, interfaces, interface_map, cables, staging,
                   terminations, label_to_cable_id, updated>>
    /\ UNCHANGED cvars
    /\ UNCHANGED xvars

generate_interfaces(absent) ==
    /\ stage = "devices"
    /\ stage' = "interfaces"
    /\ device_id_map' = DeviceIdMap(devices, topo, absent)
    /\ interfaces' = InterfaceRows(topo, device_id_map')
    /\ UNCHANGED <<topo, devices, interface_map, cables, staging, terminations,
                   label_to_cable_id, updated>>
    /\ UNCHANGED cvars
    /\ UNCHANGED xvars

generate_cables ==
    /\ stage = "interfaces"
    /\ stage' = "cables"
    /\ interface_map' = InterfaceMap(interfaces, device_id_map)
    /\ staging' = TerminationStaging(topo)
    /\ cables' = [i \in 1 .. Len(staging') |->
                     [label |-> staging'[i].label, color |-> staging'[i].color]]
    /\ terminations' = BuildTerminations(staging', interface_map',
                                         InterfaceContentTypeId)
    /\ UNCHANGED <<topo, devices, device_id_map, interfaces, label_to_cable_id,
                   updated>>
    /\ UNCHANGED cvars
    /\ UNCHANGED xvars

update_terminations_with_cable_ids(drop) ==
    /\ stage = "cables"
    /\ stage' = "updated"
    /\ drop <= Len(cables)
    /\ label_to_cable_id' = LabelToCableId(cables, drop)
    /\ updated' = UpdateTerminations(terminations, label_to_cable_id')
    /\ UNCHANGED <<topo, devices, device_id_map, interfaces, interface_map, cables,
                   staging, terminations>>
    /\ UNCHANGED cvars
    /\ UNCHANGED xvars

\* no rest_get_all call
NoPager ==
    [server |-> [total |-> 0, size |-> 1, style |-> "offset"],
     offset |-> None, results |-> <<>>, fetched |-> <<>>, pc |-> "none"]

\* no caller program, no second client, no template call and no rest_get_all
NoProgram ==
    /\ history = <<>>
    /\ wf = [step |-> "none", interfaces |-> 0, cables |-> 0]
    /\ sched = [self |-> 1, suspended |-> <<>>]
    /\ pager = NoPager
    /\ tmpl = [schema |-> <<>>, include_optional |-> FALSE, template |-> <<>>,
               done |-> FALSE]

Init ==
    /\ pc = "idle"
    /\ args = NoArgs
    /\ log = <<>>
    /\ result = EmptyDict
    /\ err = NoErr
    /\ job_id = ""
    /\ job_result = EmptyDict
    /\ start_time = 0
    /\ now = 0
    /\ jobs = <<>>
    /\ cache \in {"", "k1"}
    /\ download_url = <<>>
    /\ files = [p \in Paths |-> <<>>]
    /\ NoTopology
    /\ NoProgram

Next ==
    \/ \E a \in FileArgs("load"), immediate \in BOOLEAN, ok \in BOOLEAN :
          load(a, immediate, ok)
    \/ \E a \in FileArgs("delete"), immediate \in BOOLEAN, ok \in BOOLEAN :
          delete(a, immediate, ok)
    \/ \E a \in ExportArgs, ok \in BOOLEAN : export(a, ok)
    \/ \E d \in 0 .. MaxPollTime, ok \in BOOLEAN : _wait_for_job(d, ok)
    \/ Sleep
    \/ Interrupt
    \/ \E tmp \in TempPaths, ok \in BOOLEAN : _download_export_file(tmp, ok)
    \/ \E n \in 1 .. Len(jobs), s \in {"running", "completed", "errored", "failed"},
          api \in {"none", "new", "legacy", "both"} : ServerStep(n, s, api)

Spec == Init /\ [][Next]_vars

\* the calls that take a data file: validate, load and delete
DryRunNext ==
    \/ \E a \in ValidateArgs, immediate \in BOOLEAN, ok \in BOOLEAN :
          validate(a, immediate, ok)
    \/ \E a \in FileArgs("load"), immediate \in BOOLEAN, ok \in BOOLEAN :
          load(a, immediate, ok)
    \/ \E a \in FileArgs("delete"), immediate \in BOOLEAN, ok \in BOOLEAN :
          delete(a, immediate, ok)
    \/ \E d \in 0 .. MaxPollTime, ok \in BOOLEAN : _wait_for_job(d, ok)
    \/ Sleep
    \/ Interrupt
    \/ \E n \in 1 .. Len(jobs), s \in {"running", "completed", "errored", "failed"} :
          ServerStep(n, s, "none")

SpecDryRun == Init /\ [][DryRunNext]_vars

\* _wait_for_job called on its own, for a job submitted earlier; the status
\* key of a snapshot may hold any value, "" stands for a missing key and
\* "queued" for a value the client does not know
StatusValues == {"pending", "running", "completed", "errored", "failed", "", "queued"}

WaitArgs ==
    {[NoArgs EXCEPT !.op = "wait", !.entry = "_wait_for_job",
                    !.poll_interval = i, !.timeout = t] :
        i \in 1 .. MaxPollInterval, t \in 0 .. MaxWaitTimeout}

WaitInit ==
    /\ pc = "loop"
    /\ args \in WaitArgs
    /\ log = <<>>
    /\ result = EmptyDict
    /\ err = NoErr
    /\ job_id = JobId(1)
    /\ job_result = EmptyDict
    /\ start_time = 0
    /\ now = 0
    /\ jobs \in {<<[NewJob("load", FALSE) EXCEPT !.status = s]>> : s \in StatusValues}
    /\ cache = ""
    /\ download_url = <<>>
    /\ files = [p \in Paths |-> <<>>]
    /\ NoTopology
    /\ NoProgram

\* the service changes what the next snapshot of the job will show
ServerReports(s) ==
    /\ pc \in {"loop", "sleep"}
    /\ s \in StatusValues
    /\ s # jobs[1].status
    /\ jobs' = [jobs EXCEPT ![1].status = s]
    /\ UNCHANGED <<pc, args, log, result, err, job_id, job_result, start_time,
                   now, cache, download_url, files>>
    /\ UNCHANGED tvars
    /\ UNCHANGED xvars

WaitNext ==
    \/ \E d \in 0 .. MaxPollTime, ok \in BOOLEAN : _wait_for_job(d, ok)
    \/ Sleep
    \/ Interrupt
    \/ \E s \in StatusValues : ServerReports(s)

SpecWait == WaitInit /\ [][WaitNext]_vars

\* time.sleep and the status request return
SpecWaitLive ==
    /\ SpecWait
    /\ WF_vars(Sleep)
    /\ WF_vars(\E d \in 0 .. MaxPollTime, ok \in BOOLEAN : _wait_for_job(d, ok))

(***************************************************************************)
(* A program that makes one call after the other on one client.            *)
(***************************************************************************)
\* the arguments check_export_cache accepts
CheckArgs ==
    {[NoArgs EXCEPT !.op = "check_export_cache", !.entry = "check_export_cache",
                    !.client_cache_key = k] : k \in {""} \cup CacheKeys}

\* check_export_cache: return self.export(..., check_cache_only=True,
\* client_cache_key=client_cache_key, wait=False, verbose=False)
ExportArgsOfCheck(a) ==
    [a EXCEPT !.op = "export", !.check_cache_only = TRUE, !.wait = FALSE]

check_export_cache(a, ok) ==
    /\ pc = "idle"
    /\ a.op = "check_export_cache"
    /\ export(ExportArgsOfCheck(a), ok)

\* the calls of the program: each waits for its job, with the shortest wait
SeqFileArgs(op) ==
    {a \in FileArgs(op) : a.exists /\ a.wait /\ a.timeout = 0 /\ a.poll_interval = 1}

SeqExportArgs ==
    {a \in ExportArgs : /\ a.wait /\ ~a.check_cache_only /\ ~a.force_refresh
                         /\ a.client_cache_key = ""
                         /\ a.timeout = 0 /\ a.poll_interval = 1}

\* what the program keeps of a call that ended
Outcome_Of(call_pc, call_args, call_result) ==
    [entry |-> call_args.entry, model |-> call_args.model, filters |-> call_args.filters,
     raised |-> call_pc = "raised", status |-> call_result.status,
     path |-> call_result.path]

\* the call has returned or raised: the program goes on to its next call
NextCall ==
    /\ pc \in {"returned", "raised"}
    /\ Len(history) + 1 < MaxCalls
    /\ history' = Append(history, Outcome_Of(pc, args, result))
    /\ pc' = "idle"
    /\ args' = NoArgs
    /\ log' = <<>>
    /\ result' = EmptyDict
    /\ err' = NoErr
    /\ job_id' = ""
    /\ job_result' = EmptyDict
    /\ start_time' = 0
    /\ download_url' = <<>>
    /\ UNCHANGED <<now, jobs, cache, files>>
    /\ UNCHANGED <<wf, sched, tmpl, pager>>
    /\ UNCHANGED tvars

SeqNext ==
    \/ \E a \in SeqFileArgs("load"), immediate \in BOOLEAN, ok \in BOOLEAN :
          load(a, immediate, ok)
    \/ \E a \in SeqFileArgs("delete"), immediate \in BOOLEAN, ok \in BOOLEAN :
          delete(a, immediate, ok)
    \/ \E a \in SeqExportArgs, ok \in BOOLEAN : export(a, ok)
    \/ \E a \in CheckArgs, ok \in BOOLEAN : check_export_cache(a, ok)
    \/ _wait_for_job(0, TRUE)
    \/ Sleep
    \/ \E tmp \in TempPaths, ok \in BOOLEAN : _download_export_file(tmp, ok)
    \/ \E s \in {"running", "completed", "errored"}, api \in {"none", "new"} :
          pc \in {"loop", "sleep"} /\ ServerStep(JobIndex(job_id), s, api)
    \/ NextCall

SpecSeq == Init /\ [][SeqNext]_vars

(***************************************************************************)
(* Two client instances against one service.  A client holds its state in  *)
(* its own object and in the locals of its call; the service, the local    *)
(* files and the clock are common.  One client runs at a time; Switch      *)
(* suspends it and resumes the other.                                      *)
(***************************************************************************)
\* what a client instance and its call hold
Context ==
    [pc |-> pc, args |-> args, log |-> log, result |-> result, err |-> err,
     job_id |-> job_id, job_result |-> job_result, start_time |-> start_time,
     download_url |-> download_url]

\* a client just constructed: a session of its own, no call made
IdleContext ==
    [pc |-> "idle", args |-> NoArgs, log |-> <<>>, result |-> EmptyDict, err |-> NoErr,
     job_id |-> "", job_result |-> EmptyDict, start_time |-> 0, download_url |-> <<>>]

\* the scheduler runs the other client
Switch ==
    /\ sched.suspended # <<>>
    /\ sched' = [self |-> 3 - sched.self, suspended |-> Context]
    /\ pc' = sched.suspended.pc
    /\ args' = sched.suspended.args
    /\ log' = sched.suspended.log
    /\ result' = sched.suspended.result
    /\ err' = sched.suspended.err
    /\ job_id' = sched.suspended.job_id
    /\ job_result' = sched.suspended.job_result
    /\ start_time' = sched.suspended.start_time
    /\ download_url' = sched.suspended.download_url
    /\ UNCHANGED <<now, jobs, cache, files>>
    /\ UNCHANGED <<history, wf, tmpl, pager>>
    /\ UNCHANGED tvars

\* the calls of the two clients: each waits for its job, with the shortest
\* wait; an export writes to a temporary file
MultiFileArgs(op) == {a \in SeqFileArgs(op) : ~a.dry_run}

MultiExportArgs == {a \in SeqExportArgs : a.output_path = 0}

MultiInit ==
    /\ pc = "idle"
    /\ args = NoArgs
    /\ log = <<>>
    /\ result = EmptyDict
    /\ err = NoErr
    /\ job_id = ""
    /\ job_result = EmptyDict
    /\ start_time = 0
    /\ now = 0
    /\ jobs = <<>>
    /\ cache \in {"", "k1"}
    /\ download_url = <<>>
    /\ files = [p \in Paths |-> <<>>]
    /\ NoTopology
    /\ history = <<>>
    /\ wf = [step |-> "none", interfaces |-> 0, cables |-> 0]
    /\ sched = [self |-> 1, suspended |-> IdleContext]
    /\ pager = NoPager
    /\ tmpl = [schema |-> <<>>, include_optional |-> FALSE, template |-> <<>>,
               done |-> FALSE]

MultiNext ==
    \/ \E a \in MultiFileArgs("load"), ok \in BOOLEAN : load(a, FALSE, ok)
    \/ \E a \in MultiFileArgs("delete"), ok \in BOOLEAN : delete(a, FALSE, ok)
    \/ \E a \in MultiExportArgs, ok \in BOOLEAN : export(a, ok)
    \/ _wait_for_job(0, TRUE)
    \/ Sleep
    \/ \E tmp \in TempPaths : _download_export_file(tmp, TRUE)
    \/ \E n \in 1 .. Len(jobs), s \in {"running", "completed", "errored"},
          api \in {"none", "new"} : ServerStep(n, s, api)
    \/ Switch

SpecMulti == MultiInit /\ [][MultiNext]_vars

(***************************************************************************)
(* The cable push (examples/06_gpu_datacenter_cabling.py, cmd_push; the    *)
(* same calls are made by examples/05_cable_connections.py).               *)
(***************************************************************************)
PushLoadArgs_NoWait(model) ==
    [NoArgs EXCEPT !.op = "load", !.entry = "load", !.model = model, !.wait = FALSE,
                   !.poll_interval = 1, !.timeout = 1]

\* client.load('dcim.cable' | 'dcim.cabletermination', path, mode='insert')
PushLoadArgs(model) ==
    [NoArgs EXCEPT !.op = "load", !.entry = "load", !.model = model,
                   !.poll_interval = 1, !.timeout = 1]

\* client.export(model='dcim.cable', filters={'label__startswith': topo.prefix},
\*               fields=['id', 'label'], output_path=Path(...), format='parquet')
PushExportArgs ==
    [NoArgs EXCEPT !.op = "export", !.entry = "export", !.model = "dcim.cable",
                   !.filters = "label__startswith=" \o prefix,
                   !.output_path = OutputPath,
                   !.poll_interval = 1, !.timeout = 1]

\* the interfaces are fetched: without any, cmd_push returns at once
push_fetch_interfaces(ok) ==
    /\ wf.step = "start"
    /\ pc = "idle"
    /\ wf' = [wf EXCEPT !.step = IF ~ok THEN "aborted"
                                 ELSE IF wf.interfaces = 0 THEN "done"
                                 ELSE "cables"]
    /\ UNCHANGED <<history, sched, tmpl, pager>>
    /\ UNCHANGED cvars
    /\ UNCHANGED tvars

push_load_cables(immediate, ok) ==
    /\ wf.step = "cables"
    /\ load(PushLoadArgs("dcim.cable"), immediate, ok)

push_export(ok) ==
    /\ wf.step = "export"
    /\ export(PushExportArgs, ok)

push_load_terminations(immediate, ok) ==
    /\ wf.step = "terminations"
    /\ load(PushLoadArgs("dcim.cabletermination"), immediate, ok)

ContinuesAfter_Always(call_pc) == TRUE

\* no try/except around the calls: an exception ends cmd_push
ContinuesAfter(call_pc) == call_pc = "returned"

\* the statement after a call: the next phase, or the end of cmd_push;
\* export_result['path'] is read after the export
push_continue ==
    /\ wf.step \in {"cables", "export", "terminations"}
    /\ pc \in {"returned", "raised"}
    /\ history' = Append(history, Outcome_Of(pc, args, result))
    /\ wf' = [wf EXCEPT !.step =
                 IF ~ContinuesAfter(pc) THEN "aborted"
                 ELSE IF wf.step = "cables" THEN "export"
                 ELSE IF wf.step = "export"
                      THEN IF result.path = 0 \/ files[result.path] = <<>>
                           THEN "aborted" ELSE "terminations"
                 ELSE "done"]
    /\ pc' = "idle"
    /\ args' = NoArgs
    /\ log' = <<>>
    /\ result' = EmptyDict
    /\ err' = NoErr
    /\ job_id' = ""
    /\ job_result' = EmptyDict
    /\ start_time' = 0
    /\ download_url' = <<>>
    /\ UNCHANGED <<now, jobs, cache, files>>
    /\ UNCHANGED <<sched, tmpl, pager>>
    /\ UNCHANGED tvars

PushInit ==
    /\ pc = "idle"
    /\ args = NoArgs
    /\ log = <<>>
    /\ result = EmptyDict
    /\ err = NoErr
    /\ job_id = ""
    /\ job_result = EmptyDict
    /\ start_time = 0
    /\ now = 0
    /\ jobs = <<>>
    /\ cache \in {"", "k1"}
    /\ download_url = <<>>
    /\ files = [p \in Paths |-> <<>>]
    /\ NoTopology
    /\ history = <<>>
    /\ wf \in {[step |-> "start", interfaces |-> i, cables |-> c] :
                  i \in 0 .. MaxInterfaces, c \in 0 .. MaxInterfaces \div 2}
    /\ wf.cables <= wf.interfaces \div 2
    /\ sched = [self |-> 1, suspended |-> <<>>]
    /\ pager = NoPager
    /\ tmpl = [schema |-> <<>>, include_optional |-> FALSE, template |-> <<>>,
               done |-> FALSE]

PushNext ==
    \/ \E ok \in BOOLEAN : push_fetch_interfaces(ok)
    \/ \E immediate \in BOOLEAN, ok \in BOOLEAN : push_load_cables(immediate, ok)
    \/ \E ok \in BOOLEAN : push_export(ok)
    \/ \E immediate \in BOOLEAN, ok \in BOOLEAN : push_load_terminations(immediate, ok)
    \/ push_continue
    \/ \E d \in 0 .. MaxPollTime, ok \in BOOLEAN : _wait_for_job(d, ok)
    \/ Sleep
    \/ \E ok \in BOOLEAN : _download_export_file(OutputPath, ok)
    \/ \E s \in {"running", "completed", "errored", "failed"},
          api \in {"none", "new", "legacy"} :
          pc \in {"loop", "sleep"} /\ ServerStep(JobIndex(job_id), s, api)

SpecPush == PushInit /\ [][PushNext]_vars

(***************************************************************************)
(* rest_get_all: the pages of a list endpoint.  The endpoint lists the     *)
(* objects 1 .. total in pages of `size`; the next link of a page is a URL *)
(* whose query names the next page by offset or by page number.            *)
(***************************************************************************)
Servers ==
    {[total |-> n, size |-> z, style |-> y] :
        n \in 0 .. MaxItems, z \in 1 .. MaxItems, y \in {"offset", "page"}}

\* the query of a next link, as pairs; <<>> is no link
NextLink(server, start) ==
    IF start + server.size >= server.total THEN <<>>
    ELSE IF server.style = "offset"
    THEN <<<<"limit", server.size>>, <<"offset", start + server.size>>>>
    ELSE <<<<"page", ((start + server.size) \div server.size) + 1>>>>

\* GET endpoint?limit=1000&offset=...: an endpoint paged by offset starts at
\* the offset asked for, one paged by number reads no page parameter here
\* and serves its first page
ServerPage(server, offset) ==
    LET start == IF server.style = "offset" /\ offset # None THEN offset ELSE 0
        last == IF start + server.size < server.total
                THEN start + server.size ELSE server.total
    IN  [start |-> start,
         results |-> [i \in 1 .. (IF last > start THEN last - start ELSE 0) |-> start + i],
         next |-> NextLink(server, start)]

\* parse_qs(urlparse(next_url).query).get("offset", [0])[0]
OffsetOf(query) ==
    IF \E i \in 1 .. Len(query) : query[i][1] = "offset"
    THEN LET i == CHOOSE i \in 1 .. Len(query) : query[i][1] = "offset"
         IN  query[i][2]
    ELSE 0

\* one iteration of the loop of rest_get_all: the request, results.extend,
\* the test of the next link, the new offset
rest_get_all(ok) ==
    /\ pager.pc = "loop"
    /\ Len(pager.fetched) < MaxFetches
    /\ LET data == ServerPage(pager.server, pager.offset)
       IN  pager' =
             IF raise_for_status(ok)
             THEN [pager EXCEPT !.pc = "raised"]
             ELSE [pager EXCEPT
                     !.results = pager.results \o data.results,
                     !.fetched = Append(pager.fetched, data.start),
                     !.offset = IF data.next = <<>> THEN pager.offset
                                ELSE OffsetOf(data.next),
                     !.pc = IF data.next = <<>> THEN "returned" ELSE "loop"]
    /\ UNCHANGED <<history, wf, sched, tmpl>>
    /\ UNCHANGED cvars
    /\ UNCHANGED tvars

PagesInit ==
    /\ pc = "idle"
    /\ args = NoArgs
    /\ log = <<>>
    /\ result = EmptyDict
    /\ err = NoErr
    /\ job_id = ""
    /\ job_result = EmptyDict
    /\ start_time = 0
    /\ now = 0
    /\ jobs = <<>>
    /\ cache = ""
    /\ download_url = <<>>
    /\ files = [p \in Paths |-> <<>>]
    /\ NoTopology
    /\ history = <<>>
    /\ wf = [step |-> "none", interfaces |-> 0, cables |-> 0]
    /\ sched = [self |-> 1, suspended |-> <<>>]
    /\ tmpl = [schema |-> <<>>, include_optional |-> FALSE, template |-> <<>>,
               done |-> FALSE]
    /\ pager \in {[NoPager EXCEPT !.server = v, !.pc = "loop"] : v \in Servers}

PagesNext == \E ok \in BOOLEAN : rest_get_all(ok)

SpecPages == PagesInit /\ [][PagesNext]_vars

(***************************************************************************)
(* get_template: the template dict computed from the schema of a model.    *)
(* Names and types are sequences of tokens, so that endswith("_id") and    *)
(* the substring tests on the type are computed; values are Python reprs.  *)
(***************************************************************************)
FieldNames == {<<"name">>, <<"site">>, <<"rack", "_id">>}

\* the position of a field in the declaration of its model
Position(name) ==
    IF name = <<"name">> THEN 1 ELSE IF name = <<"site">> THEN 2 ELSE 3

FieldType(name) ==
    IF name = <<"name">> THEN <<"Char", "Field">>
    ELSE IF name = <<"site">> THEN <<"ForeignKey">>
    ELSE <<"Big", "Int", "egerField">>

\* the fields a schema can hold; "absent" is a missing key, "None" is null
Fields ==
    {[name |-> n, primary_key |-> p, nullable |-> u, default |-> d,
      foreign_key |-> k, type |-> FieldType(n)] :
        n \in FieldNames, p \in BOOLEAN, u \in {"True", "False", "absent"},
        d \in {"None", "'v'"}, k \in {"None", "dcim.site"}}

endswith(name, suffix) == name # <<>> /\ name[Len(name)] = suffix

\* the column of a field in its table: a foreign key is stored as <name>_id
Column(field) ==
    IF field.foreign_key # "None" /\ ~endswith(field.name, "_id")
    THEN Append(field.name, "_id")
    ELSE field.name

\* a model has one primary key at most, no two of its fields share a name
\* or a column, and the schema lists the fields as declared
Compatible(schema, field) ==
    /\ \A i \in 1 .. Len(schema) :
          /\ Position(schema[i].name) < Position(field.name)
          /\ Column(schema[i]) # Column(field)
          /\ schema[i].name # Column(field)
          /\ Column(schema[i]) # field.name
          /\ ~(schema[i].primary_key /\ field.primary_key)

RECURSIVE SchemasOfLen(_)
SchemasOfLen(n) ==
    IF n = 0 THEN {<<>>}
    ELSE UNION {{Append(s, f) : f \in {g \in Fields : Compatible(s, g)}} :
                   s \in SchemasOfLen(n - 1)}

Schemas == UNION {SchemasOfLen(n) : n \in 0 .. MaxFields}

In(sub, field_type) == \E i \in 1 .. Len(field_type) : field_type[i] = sub

is_pk(field) == field.primary_key

\* field.get("nullable", True)
nullable(field) == field.nullable # "False"

has_default(field) == field.default # "None"

is_fk(field) == field.foreign_key # "None"

TemplateName_Bare(field) == field.name

\* name = f"{name}_id" if not name.endswith("_id") else name, for an FK field
TemplateName(field) ==
    IF is_fk(field) /\ ~endswith(field.name, "_id")
    THEN Append(field.name, "_id")
    ELSE field.name

\* if nullable and has_default and not include_optional: continue
Skipped(field, include_optional) ==
    nullable(field) /\ has_default(field) /\ ~include_optional

\* the value by default, else by type
ExampleValue(field) ==
    IF field.default # "None" THEN field.default
    ELSE IF In("Char", field.type) \/ In("Text", field.type) THEN "''"
    ELSE IF In("Int", field.type) \/ In("BigInt", field.type) THEN "0"
    ELSE IF In("Bool", field.type) THEN "False"
    ELSE IF In("JSON", field.type) THEN "{}"
    ELSE IF In("Decimal", field.type) \/ In("Float", field.type) THEN "0.0"
    ELSE "None"

\* template[name] = value
SetItem(template, name, value) ==
    [k \in DOMAIN template \cup {name} |-> IF k = name THEN value ELSE template[k]]

\* for field in schema.get("fields", []): ...
RECURSIVE TemplateFrom(_, _, _)
TemplateFrom(fields, include_optional, template) ==
    IF fields = <<>> THEN template
    ELSE LET field == Head(fields)
             next == IF is_pk(field) THEN template
                     ELSE IF Skipped(field, include_optional) THEN template
                     ELSE SetItem(template, TemplateName(field), ExampleValue(field))
         IN  TemplateFrom(Tail(fields), include_optional, next)

TemplateArgs ==
    [NoArgs EXCEPT !.op = "get_template", !.entry = "get_template", !.model = "dcim.site"]

\* get_template: the schema request, then the loop over the fields
get_template(ok) ==
    /\ pc = "idle"
    /\ ~tmpl.done
    /\ args' = TemplateArgs
    /\ log' = <<Exchange("schema", "GET", api_base \o <<"models", TemplateArgs.model>>,
                         NoData, ok, IF ok THEN 200 ELSE 500, EmptyDict)>>
    /\ IF raise_for_status(ok)
       THEN /\ Raise(HTTPError)
            /\ tmpl' = [tmpl EXCEPT !.done = TRUE]
       ELSE /\ Return(EmptyDict)
            /\ tmpl' = [tmpl EXCEPT
                           !.template = TemplateFrom(tmpl.schema, tmpl.include_optional, <<>>),
                           !.done = TRUE]
    /\ UNCHANGED <<job_id, start_time, now, jobs, cache, files>>
    /\ UNCHANGED <<history, wf, sched, pager>>
    /\ UNCHANGED tvars

TemplateInit ==
    /\ pc = "idle"
    /\ args = NoArgs
    /\ log = <<>>
    /\ result = EmptyDict
    /\ err = NoErr
    /\ job_id = ""
    /\ job_result = EmptyDict
    /\ start_time = 0
    /\ now = 0
    /\ jobs = <<>>
    /\ cache = ""
    /\ download_url = <<>>
    /\ files = [p \in Paths |-> <<>>]
    /\ NoTopology
    /\ history = <<>>
    /\ wf = [step |-> "none", interfaces |-> 0, cables |-> 0]
    /\ sched = [self |-> 1, suspended |-> <<>>]
    /\ pager = NoPager
    /\ tmpl \in {[schema |-> s, include_optional |-> o, template |-> <<>>, done |-> FALSE] :
                    s \in Schemas, o \in BOOLEAN}

TemplateNext == \E ok \in BOOLEAN : get_template(ok)

SpecTemplate == TemplateInit /\ [][TemplateNext]_vars

\* the generator: a topology is constructed, then its methods are applied
TopoInit ==
    /\ pc = "idle"
    /\ args = NoArgs
    /\ log = <<>>
    /\ result = EmptyDict
    /\ err = NoErr
    /\ job_id = ""
    /\ job_result = EmptyDict
    /\ start_time = 0
    /\ now = 0
    /\ jobs = <<>>
    /\ cache = ""
    /\ download_url = <<>>
    /\ files = [p \in Paths |-> <<>>]
    /\ topo \in Topologies
    /\ stage = "new"
    /\ devices = <<>>
    /\ device_id_map = <<>>
    /\ interfaces = <<>>
    /\ interface_map = <<>>
    /\ cables = <<>>
    /\ staging = <<>>
    /\ terminations = <<>>
    /\ label_to_cable_id = <<>>
    /\ updated = <<>>
    /\ NoProgram

TopoNext ==
    \/ generate_devices
    \/ \E absent \in {"none", "spine", "leaf", "gpu"} : generate_interfaces(absent)
    \/ generate_cables
    \/ \E drop \in 0 .. MaxDrop : update_terminations_with_cable_ids(drop)

SpecTopo == TopoInit /\ [][TopoNext]_vars

(***************************************************************************)
(* Observations of a call.                                                 *)
(***************************************************************************)
Exchanges(kind) == {i \in 1 .. Len(log) : log[i].kind = kind}

Ended == pc \in {"returned", "raised"}

Terminal == {"completed", "errored", "failed"}

\* the outcome of an export call that returned
Outcome ==
    IF pc # "returned" THEN "none"
    ELSE IF result.status_code = 304 THEN "NotModified"
    ELSE IF result.status_code = 200 /\ result.cached = "true" THEN "CacheHit"
    ELSE IF result.status_code = 200 /\ result.cached = "false" THEN "CacheMiss"
    ELSE IF result.status = "completed" /\ result.cached = "false" THEN "Fresh"
    ELSE "Pending"

NoFileWritten == \A p \in Paths : files[p] = <<>>

(***************************************************************************)
(* The claims.                                                             *)
(***************************************************************************)

\* C1: a status poll that observes 'errored' or 'failed' is the last request
\* of the call, and the call raises JobFailedError whose job_result is the
\* snapshot of that poll; the call does not return.
C1_FailedPollRaises ==
    \A i \in Exchanges("status") :
        (log[i].ok /\ log[i].body.status \in {"errored", "failed"}) =>
            /\ i = Len(log)
            /\ pc = "raised"
            /\ err.class = "JobFailedError"
            /\ err.job_result = log[i].body
            /\ result = EmptyDict

C1_Witness ==
    /\ pc = "raised" /\ err.class = "JobFailedError"
    /\ args.op = "export"
    /\ log[Len(log)].body.status = "failed"
    /\ err.job_result.error = "boom"

\* the wait of the call ended without a poll that observed a terminal status,
\* without a failed request and without an interruption
WaitTimedOut ==
    /\ Ended
    /\ Exchanges("status") # {}
    /\ \A i \in Exchanges("status") : log[i].ok /\ log[i].body.status \notin Terminal
    /\ err.class # "KeyboardInterrupt"

C3_LoadRaisesJobFailedError ==
    (args.op = "load" /\ pc = "raised" /\ Exchanges("status") # {}
        /\ err.class \notin {"HTTPError", "KeyboardInterrupt"}) =>
        IsInstance(err.class, "JobFailedError")

\* C4: an export call with check_cache_only=true creates no job, sends no
\* status poll and no download request, and writes no file, whatever the cache
\* state and the other flags.
C4_CheckOnlyNoJob ==
    (args.op = "export" /\ args.check_cache_only) =>
        /\ jobs = <<>>
        /\ Exchanges("status") = {}
        /\ Exchanges("download") = {}
        /\ NoFileWritten
        /\ pc \in {"returned", "raised"}
        /\ Len(log) = 1

C4_Witness ==
    /\ args.op = "export" /\ args.check_cache_only /\ args.force_refresh
    /\ args.wait
    /\ cache # ""
    /\ pc = "returned" /\ result.cached = "false"

\* C5: an export call whose client_cache_key is the service's current cache key
\* returns NotModified (status_code 304, cached true, no path) unless the
\* request itself fails; no job is created, no poll and no download are sent.
C5_KeyCurrentStep ==
    (pc = "idle" /\ pc' # "idle" /\ args'.op = "export"
        /\ args'.client_cache_key # "" /\ args'.client_cache_key = cache) =>
        /\ \/ /\ pc' = "returned"
              /\ result'.status_code = 304
              /\ result'.cached = "true"
              /\ result'.path = 0
           \/ /\ pc' = "raised" /\ err' = HTTPError /\ ~log'[1].ok
        /\ jobs' = jobs
        /\ files' = files
        /\ Len(log') = 1 /\ log'[1].kind = "submit"

C5_KeyCurrentNotModified == [][C5_KeyCurrentStep]_vars

C5_Witness ==
    /\ args.op = "export" /\ args.client_cache_key = cache /\ cache # ""
    /\ args.force_refresh /\ ~args.check_cache_only
    /\ Outcome = "NotModified" /\ result.cached = "true"
    /\ jobs = <<>> /\ Len(log) = 1 /\ NoFileWritten

\* C6 (as stated): every export call with force_refresh=true that returns
\* ends in Fresh with cached=false.
C6_ForceAlwaysFresh ==
    (args.op = "export" /\ args.force_refresh /\ pc = "returned") =>
        (Outcome = "Fresh" /\ result.cached = "false")

\* C6 (amended): an export call with force_refresh=true never ends in CacheHit;
\* with check_cache_only=false and wait=true every normal return is Fresh with
\* cached=false, or NotModified when a client_cache_key was passed; CacheMiss
\* is returned only with check_cache_only=true and the pending job only with
\* wait=false.
C6_ForceNeverCacheHit ==
    (args.op = "export" /\ args.force_refresh /\ pc = "returned") =>
        /\ Outcome # "CacheHit"
        /\ Outcome = "NotModified" => args.client_cache_key # ""
        /\ Outcome = "CacheMiss" => args.check_cache_only
        /\ Outcome = "Pending" => (~args.wait /\ ~args.check_cache_only)
        /\ Outcome = "Fresh" =>
              (result.cached = "false" /\ args.wait /\ ~args.check_cache_only)
        /\ (args.wait /\ ~args.check_cache_only /\ args.client_cache_key = "") =>
              Outcome = "Fresh"

C6_Witness ==
    /\ args.op = "export" /\ args.force_refresh /\ pc = "returned"
    /\ args.client_cache_key = ""
    /\ Outcome = "Fresh"
    /\ log[1].data.force_refresh
    /\ cache = "k2"

\* C7 (as stated): an export call that ends in CacheHit or Fresh has sent the
\* download request and returns the written file as path; one that ends in
\* NotModified or CacheMiss has sent no download request and written no file.
C7_HitAndFreshDownload ==
    (args.op = "export" /\ pc = "returned") =>
        /\ Outcome \in {"CacheHit", "Fresh"} =>
              /\ Cardinality(Exchanges("download")) = 1
              /\ result.path \in Paths
              /\ files[result.path] # <<>>
        /\ Outcome \in {"NotModified", "CacheMiss"} =>
              /\ Exchanges("download") = {}
              /\ NoFileWritten

\* C7 (amended): the same, for calls with check_cache_only=false; a call with
\* check_cache_only=true returns the service's answer (CacheHit included)
\* without a download request, a path or a written file.
C7_DownloadUnlessCheckOnly ==
    (args.op = "export" /\ pc = "returned") =>
        /\ (Outcome \in {"CacheHit", "Fresh"} /\ ~args.check_cache_only) =>
              /\ Cardinality(Exchanges("download")) = 1
              /\ log[Len(log)].kind = "download" /\ log[Len(log)].ok
              /\ result.path \in Paths
              /\ files[result.path] = ServerDownload(log[Len(log)].url)
              /\ \A p \in Paths \ {result.path} : files[p] = <<>>
        /\ (Outcome \in {"NotModified", "CacheMiss"} \/ args.check_cache_only) =>
              /\ Exchanges("download") = {}
              /\ result.path = 0
              /\ NoFileWritten

C7_Witness ==
    /\ args.op = "export" /\ pc = "returned" /\ ~args.check_cache_only
    /\ Outcome = "CacheHit"
    /\ result.path = OutputPath
    /\ files[OutputPath] # <<>>

\* C8: a call sends at most one submission request, as its first request, and
\* a request that fails is the last request of the call, which raises the
\* transport error.
C8_NoRetry ==
    /\ Cardinality(Exchanges("submit")) <= 1
    /\ \A i \in Exchanges("submit") : i = 1
    /\ \A i \in 1 .. Len(log) :
          ~log[i].ok => (i = Len(log) /\ pc = "raised" /\ err = HTTPError)
    /\ Ended => \A i \in 1 .. Len(log) :
          (log[i].kind = "status" /\ i < Len(log)) =>
              log[i].body.status \notin {"errored", "failed"}

C8_Witness ==
    /\ pc = "raised" /\ err = HTTPError
    /\ Len(log) = 3
    /\ log[3].kind = "status" /\ ~log[3].ok
    /\ args.op = "load"

\* C9: load and delete with a data_path that does not exist raise the
\* invalid-input error; no request is sent and no job exists.
C9_MissingFileNoRequest ==
    (args.op \in {"load", "delete"} /\ ~args.exists) =>
        /\ pc = "raised"
        /\ err = TurboBulkError("Data file not found")
        /\ log = <<>>
        /\ jobs = <<>>

C9_Witness ==
    /\ args.op = "delete" /\ ~args.exists /\ args.wait
    /\ pc = "raised" /\ log = <<>>

\* the lifecycle of a job
Lifecycle ==
    {<<"pending", "running">>, <<"running", "completed">>,
     <<"running", "errored">>, <<"running", "failed">>}

\* C10: after the submission the client sends only GET requests, the status
\* reads being for the job id of its own submission; a step that changes the
\* status of a job follows the lifecycle and is no step of the client, and a
\* job is created only by the submission.
C10_ObserveStep ==
    /\ \A i \in 2 .. Len(log') :
          /\ log'[i].method = "GET"
          /\ log'[i].kind \in {"status", "download"}
          /\ log'[i].kind = "status" =>
                (/\ log'[i].url = api_base \o <<"jobs", log'[1].body.job_id>>
                 /\ log'[1].body.job_id # ""
                 /\ \A k \in 1 .. i : log'[k].kind # "download")
    /\ \A n \in 1 .. Len(jobs) :
          /\ n <= Len(jobs')
          /\ jobs'[n].status # jobs[n].status =>
                /\ <<jobs[n].status, jobs'[n].status>> \in Lifecycle
                /\ UNCHANGED <<pc, args, log, result, err, job_id, now, files>>
    /\ Len(jobs') > Len(jobs) =>
          /\ pc = "idle" /\ Len(log') = 1 /\ log'[1].kind = "submit"
          /\ jobs'[Len(jobs')].status = "pending"

C10_ClientOnlyObserves == [][C10_ObserveStep]_vars

C10_Witness ==
    /\ pc = "raised" /\ err.class \in {"KeyboardInterrupt", "TurboBulkError"}
    /\ Exchanges("status") # {}
    /\ jobs # <<>> /\ jobs[1].status = "completed"

(***************************************************************************)
(* Observations on the generator.                                          *)
(***************************************************************************)
\* a TopologySpec with non-negative dimensions, at least one port per spine
\* and leaf_downlinks >= 0
Valid(t) ==
    /\ t.pods >= 0 /\ t.spines_per_pod >= 0 /\ t.leaves_per_pod >= 0
    /\ t.gpu_servers_per_leaf >= 0 /\ t.nics_per_gpu_server >= 0
    /\ t.spine_ports >= 1
    /\ leaf_downlinks(t) >= 0

Generated == stage \in {"cables", "updated"}

AllDevicesPresent == DOMAIN device_id_map = {devices[i] : i \in DOMAIN devices}

GeneratedInterfaceIds == {interface_map[k] : k \in DOMAIN interface_map}

RowsOf(rows, lb) == {i \in DOMAIN rows : rows[i]._label = lb}

\* the highest leaf port generate_cables can name
MaxPort(t) == leaf_uplinks(t) + t.gpu_servers_per_leaf * t.nics_per_gpu_server + 1

\* the interface keys of leaf l of pod pod
LeafKeys(pod, l) == {IfaceKey(LeafName(pod, l), Eth(n)) : n \in 0 .. MaxPort(topo)}

\* the staged cables of one colour on leaf l of pod pod, in generation order
LeafCables(pod, l, color) ==
    SelectSeq(staging, LAMBDA c : c.color = color /\ c.a_key \in LeafKeys(pod, l))

StagedOf(color) == {i \in DOMAIN staging : staging[i].color = color}

(***************************************************************************)
(* Claims C11 .. C20.                                                      *)
(***************************************************************************)
\* C11: for every valid TopologySpec and every interface_map, the number of
\* cables generate_cables returns is estimated_cables.
C11_CableCountIsEstimate ==
    (Generated /\ Valid(topo)) => Len(cables) = estimated_cables(topo)

C11_Witness ==
    /\ stage = "cables" /\ Valid(topo)
    /\ ~AllDevicesPresent
    /\ Len(cables) = 6
    /\ Len(terminations) < 2 * Len(cables)

\* C12: for every valid TopologySpec, when interface_map holds exactly the
\* interfaces generate_interfaces produced with every device present, every
\* cable generate_cables returns has exactly two staged terminations with its
\* label, one per end, both resolving to a generated interface.
C12_EveryCableTwoTerminations ==
    (stage = "cables" /\ Valid(topo) /\ AllDevicesPresent) =>
        \A i \in DOMAIN cables :
            LET rows == RowsOf(terminations, cables[i].label)
            IN  /\ Cardinality(rows) = 2
                /\ {terminations[k].cable_end : k \in rows} = {"A", "B"}
                /\ \A k \in rows : terminations[k].termination_id \in GeneratedInterfaceIds

\* C13: for every cable label that occurs in the terminations generate_cables
\* returns, the rows with that label are exactly one A row and one B row, and
\* their termination_id values are different interfaces.
C13_OneRowPerEndDistinct ==
    stage = "cables" =>
        \A lb \in {terminations[i]._label : i \in DOMAIN terminations} :
            LET rows == RowsOf(terminations, lb)
            IN  /\ Cardinality(rows) = 2
                /\ {terminations[k].cable_end : k \in rows} = {"A", "B"}
                /\ Cardinality({terminations[k].termination_id : k \in rows}) = 2

C13_Witness ==
    /\ stage = "cables"
    /\ Len(terminations) >= 4
    /\ Len(terminations) < 2 * Len(cables)
    /\ \E i \in DOMAIN terminations : terminations[i]._label = prefix \o "-srv-000005"

\* C15: spine-leaf cabling: each (pod, leaf) gets exactly leaf_uplinks =
\* 2 * spines_per_pod cables, on the leaf's ports eth1 .. eth(leaf_uplinks) in
\* order, two consecutive ports per spine of the same pod; the spine-side port
\* of the link with redundancy index r of leaf l is
\* eth((l*2 + r) mod spine_ports + 1).
C15_SpineLeafCabling ==
    stage = "cables" =>
        /\ Cardinality(StagedOf("00ff00")) = total_leaves(topo) * 2 * topo.spines_per_pod
        /\ \A pod \in 0 .. topo.pods - 1 : \A l \in 0 .. topo.leaves_per_pod - 1 :
              LET fab == LeafCables(pod, l, "00ff00")
              IN  /\ Len(fab) = 2 * topo.spines_per_pod
                  /\ Len(fab) = leaf_uplinks(topo)
                  /\ \A k \in 1 .. Len(fab) :
                        LET sp == (k - 1) \div 2
                            r == (k - 1) % 2
                        IN  /\ fab[k].a_key = IfaceKey(LeafName(pod, l), Eth(k))
                            /\ fab[k].b_key =
                                  IfaceKey(SpineName(pod, sp),
                                           Eth(((l * 2 + r) % topo.spine_ports) + 1))

C15_Witness ==
    /\ stage = "cables"
    /\ topo.spine_ports = 2 /\ topo.leaves_per_pod = 2 /\ topo.spines_per_pod = 2
    /\ \E i \in DOMAIN staging :
          /\ staging[i].a_key = IfaceKey(LeafName(0, 1), Eth(4))
          /\ staging[i].b_key = IfaceKey(SpineName(0, 1), Eth(2))

\* C16: leaf-server cabling: on each leaf the downlink ports are assigned in
\* sequence from eth(leaf_uplinks + 1), one cable per server NIC in generation
\* order (servers by index, NICs 1 .. nics_per_gpu_server within a server);
\* every server NIC ends exactly one cable and no leaf port is used twice.
C16_LeafServerCabling ==
    stage = "cables" =>
        /\ Cardinality(StagedOf("0000ff")) =
              total_gpu_servers(topo) * topo.nics_per_gpu_server
        /\ \A pod \in 0 .. topo.pods - 1 : \A l \in 0 .. topo.leaves_per_pod - 1 :
              LET srv == LeafCables(pod, l, "0000ff")
                  nics == topo.nics_per_gpu_server
              IN  /\ Len(srv) = topo.gpu_servers_per_leaf * nics
                  /\ \A k \in 1 .. Len(srv) :
                        /\ srv[k].a_key =
                              IfaceKey(LeafName(pod, l), Eth(2 * topo.spines_per_pod + k))
                        /\ srv[k].b_key =
                              IfaceKey(GpuName(pod, l, (k - 1) \div nics),
                                       Eth(((k - 1) % nics) + 1))
                  /\ \A g \in 0 .. topo.gpu_servers_per_leaf - 1 : \A n \in 1 .. nics :
                        Cardinality({i \in DOMAIN staging :
                            staging[i].b_key = IfaceKey(GpuName(pod, l, g), Eth(n))}) = 1
        /\ \A i, j \in DOMAIN staging : staging[i].a_key = staging[j].a_key => i = j

C16_Witness ==
    /\ stage = "cables"
    /\ topo.leaves_per_pod = 2 /\ topo.gpu_servers_per_leaf = 2
    /\ topo.nics_per_gpu_server = 2 /\ topo.spines_per_pod = 1
    /\ \E i \in DOMAIN staging :
          /\ staging[i].a_key = IfaceKey(LeafName(0, 1), Eth(6))
          /\ staging[i].b_key = IfaceKey(GpuName(0, 1, 1), Eth(2))

\* C17: update_terminations_with_cable_ids returns exactly the staged rows
\* whose label is a key of label_to_cable_id, in their original order, each
\* with cable_id set to the mapped ID and the other three fields unchanged;
\* 3 staged cables and a map missing one label give 4 rows for 2 cables.
C17_UpdateKeepsMappedRows ==
    stage = "updated" =>
        LET K == {i \in DOMAIN terminations :
                      terminations[i]._label \in DOMAIN label_to_cable_id}
            rank == [i \in K |-> Cardinality({k \in K : k <= i})]
        IN  /\ Len(updated) = Cardinality(K)
            /\ \A i \in K :
                  updated[rank[i]] =
                      [cable_id |-> label_to_cable_id[terminations[i]._label],
                       cable_end |-> terminations[i].cable_end,
                       termination_type_id |-> terminations[i].termination_type_id,
                       termination_id |-> terminations[i].termination_id]
            /\ (Len(terminations) = 6 /\ Cardinality(DOMAIN label_to_cable_id) = 2) =>
                  /\ Len(updated) = 4
                  /\ Cardinality({updated[j].cable_id : j \in DOMAIN updated}) = 2

C17_Witness ==
    /\ stage = "updated"
    /\ Len(cables) = 3 /\ Len(terminations) = 6
    /\ Cardinality(DOMAIN label_to_cable_id) = 2
    /\ Len(updated) = 4
    /\ updated[3].cable_end = "A" /\ updated[3].cable_id = 503

\* C18: every TopologySpec the generator accepts has leaf_uplinks =
\* 2 * spines_per_pod and leaf_downlinks = leaf_ports - leaf_uplinks >= 0.
C18_AcceptedSpecHasDownlinks ==
    stage # "none" =>
        /\ leaf_uplinks(topo) = 2 * topo.spines_per_pod
        /\ leaf_downlinks(topo) = topo.leaf_ports - leaf_uplinks(topo)
        /\ leaf_downlinks(topo) >= 0

\* C19: for pods=1, spines_per_pod=2, leaves_per_pod=1, gpu_servers_per_leaf=2,
\* nics_per_gpu_server=1, leaf_ports=8: leaf_uplinks is 4, leaf_downlinks is 4,
\* total_devices is 5, generate_devices returns 5 names, estimated_cables is 6.
C19_Scenario ==
    (/\ stage \notin {"none", "new"}
     /\ topo.pods = 1 /\ topo.spines_per_pod = 2 /\ topo.leaves_per_pod = 1
     /\ topo.gpu_servers_per_leaf = 2 /\ topo.nics_per_gpu_server = 1
     /\ topo.leaf_ports = 8) =>
        /\ leaf_uplinks(topo) = 4
        /\ leaf_downlinks(topo) = 4
        /\ total_devices(topo) = 5
        /\ Len(devices) = 5
        /\ estimated_cables(topo) = 6

C19_Witness ==
    /\ stage = "devices"
    /\ topo.pods = 1 /\ topo.spines_per_pod = 2 /\ topo.leaves_per_pod = 1
    /\ topo.gpu_servers_per_leaf = 2 /\ topo.nics_per_gpu_server = 1
    /\ topo.leaf_ports = 8
    /\ devices = <<"gpu-dc-spine-p00-s00", "gpu-dc-spine-p00-s01", "gpu-dc-leaf-p00-r00",
                   "gpu-dc-gpu-p00-r00-u00", "gpu-dc-gpu-p00-r00-u01">>

\* C20: within one generation run all cable labels are pairwise distinct and
\* all device names are pairwise distinct, for every TopologySpec.
C20_LabelsAndNamesDistinct ==
    /\ \A i, j \in DOMAIN devices : devices[i] = devices[j] => i = j
    /\ \A i, j \in DOMAIN cables : cables[i].label = cables[j].label => i = j

C20_Witness ==
    /\ stage = "cables"
    /\ topo.pods = 2 /\ topo.leaves_per_pod = 2 /\ topo.gpu_servers_per_leaf = 2
    /\ Len(devices) >= 14
    /\ Len(cables) >= 16

(***************************************************************************)
(* Claims C21 .. C30.                                                      *)
(***************************************************************************)
\* a step of the client, as opposed to a step of the service
ClientStep == pc' # pc

LastExchange == log[Len(log)]

\* C22: load and delete put the form field dry_run = 'true' in the submission
\* exactly when dry_run is true; with dry_run false the request has no
\* dry_run field at all.
C22_DryRunFieldIffRequested ==
    (args.op \in {"load", "delete"} /\ log # <<>>) =>
        /\ log[1].kind = "submit"
        /\ args.dry_run => log[1].data.dry_run = "true"
        /\ ~args.dry_run => log[1].data.dry_run = "absent"

C22_Witness ==
    /\ args.entry = "delete" /\ ~args.dry_run
    /\ pc = "returned" /\ Exchanges("status") # {}
    /\ log[1].data.dry_run = "absent"

\* C23: validate behaves exactly as load with the same arguments and
\* dry_run = true: the step validate takes is the step that load takes, with
\* the same request sent and the same result returned or error raised, for
\* every answer of the service; the steps after it are those of load.
C23_ValidateStep ==
    (pc = "idle" /\ args'.entry = "validate") =>
        LET b == [args' EXCEPT !.dry_run = TRUE]
        IN  /\ args'.op = "load"
            /\ \E immediate \in BOOLEAN, ok \in BOOLEAN :
                  Submission("load", b, LoadData(b), immediate, ok)

C23_ValidateIsDryRunLoad == [][C23_ValidateStep]_vars

C23_Witness ==
    /\ args.entry = "validate"
    /\ pc = "returned" /\ Exchanges("status") # {}
    /\ log[1].data.dry_run = "true"
    /\ result = LastExchange.body

\* C24: dry-run changes only the submitted option: every step of a load or a
\* delete is fixed by the arguments other than dry_run, the time and the
\* answers of the service, so that the call with dry_run = true and the call
\* with dry_run = false make the same submission, polls and sleeps and end by
\* the same rule (return on completed, JobFailedError on errored or failed,
\* the timeout error once the deadline has passed).
C24_Step ==
    (ClientStep /\ args'.op \in {"load", "delete"}) =>
        /\ pc = "idle" =>
              \/ /\ ~args'.exists
                 /\ pc' = "raised" /\ err'.class = "TurboBulkError" /\ log' = <<>>
              \/ /\ args'.exists
                 /\ Len(log') = 1 /\ log'[1].kind = "submit"
                 /\ [log'[1].data EXCEPT !.dry_run = "absent"] = NoData
                 /\ IF ~log'[1].ok
                    THEN pc' = "raised" /\ err'.class = "HTTPError"
                    ELSE IF ~args'.wait \/ log'[1].body.job_id = ""
                    THEN pc' = "returned" /\ result' = log'[1].body
                    ELSE pc' = "loop" /\ job_id' = log'[1].body.job_id
        /\ pc = "loop" =>
              IF now - start_time > args.timeout
              THEN pc' = "raised" /\ err'.class = "TurboBulkError" /\ log' = log
              ELSE LET poll == log'[Len(log')]
                   IN  /\ Len(log') = Len(log) + 1
                       /\ poll.kind = "status"
                       /\ IF ~poll.ok
                          THEN pc' = "raised" /\ err'.class = "HTTPError"
                          ELSE IF poll.body.status = "completed"
                          THEN pc' = "returned" /\ result' = poll.body
                          ELSE IF poll.body.status \in {"errored", "failed"}
                          THEN /\ pc' = "raised" /\ err'.class = "JobFailedError"
                               /\ err'.job_result = poll.body
                          ELSE pc' = "sleep"
        /\ pc = "sleep" =>
              /\ log' = log
              /\ \/ pc' = "loop" /\ now' = now + args.poll_interval
                 \/ pc' = "raised" /\ err'.class = "KeyboardInterrupt"

C24_DryRunChangesOnlyTheOption == [][C24_Step]_vars

C24_Witness ==
    /\ args.op = "load" /\ args.dry_run
    /\ pc = "raised" /\ err.class = "TurboBulkError"
    /\ Cardinality(Exchanges("status")) >= 2
    /\ log[1].data.dry_run = "true"

\* C25: a validation failure that the service reports for a dry-run reaches
\* the caller as a returned result, not as a raised exception.
C25_ValidationFailureReturned ==
    (/\ args.op \in {"load", "delete"} /\ args.dry_run
     /\ Ended
     /\ Exchanges("status") # {}
     /\ LastExchange.kind = "status" /\ LastExchange.ok
     /\ LastExchange.body.status = "errored" /\ LastExchange.body.error # "") =>
        pc = "returned" /\ result = LastExchange.body

Polled == Len(log') = Len(log) + 1 /\ log'[Len(log')].kind = "status"

\* C29 as stated: every status other than completed, errored and failed is
\* followed by a sleep and another poll, so a wait whose last poll saw such a
\* status has not ended with the timeout error.
C29_AnotherPollFollows ==
    (/\ args.op = "wait" /\ log # <<>>
     /\ LastExchange.ok /\ LastExchange.body.status \notin Terminal) =>
        ~WaitTimedOut

\* C29: _wait_for_job returns only at a poll that observed 'completed', and
\* returns that poll's snapshot; a poll that observed any other status than
\* completed, errored or failed (pending, running, missing, unknown) returns
\* nothing and is followed by a sleep of poll_interval and the next
\* iteration, which polls again unless the deadline has passed by then.
C29_Step ==
    (args.op = "wait" /\ ClientStep) =>
        /\ pc' = "returned" =>
              /\ pc = "loop" /\ Polled
              /\ log'[Len(log')].ok
              /\ log'[Len(log')].body.status = "completed"
              /\ result' = log'[Len(log')].body
        /\ (/\ pc = "loop" /\ Polled /\ log'[Len(log')].ok
            /\ log'[Len(log')].body.status \notin Terminal) =>
              pc' = "sleep" /\ result' = EmptyDict /\ err' = NoErr
        /\ (pc = "sleep" /\ pc' # "raised") =>
              pc' = "loop" /\ now' = now + args.poll_interval /\ log' = log
        /\ (pc = "loop" /\ now - start_time <= args.timeout) => Polled
        /\ (pc = "loop" /\ now - start_time > args.timeout) =>
              pc' = "raised" /\ err'.class = "TurboBulkError" /\ log' = log

C29_ReturnsOnlyCompleted == [][C29_Step]_vars

C29_Witness ==
    /\ args.op = "wait" /\ pc = "returned"
    /\ Len(log) = 3
    /\ log[1].body.status = "" /\ log[2].body.status = "queued"
    /\ log[3].body.status = "completed" /\ result = log[3].body

\* C30: _wait_for_job always ends: a wait makes at most
\* floor(timeout / poll_interval) + 1 polls, and when the job never shows a
\* terminal status (and no request fails and nobody interrupts) the wait
\* ends with the timeout error.
PollBound == (args.timeout \div args.poll_interval) + 1

C30_WaitEnds ==
    /\ [](Cardinality(Exchanges("status")) <= PollBound)
    /\ (pc = "loop") ~> Ended
    /\ [](jobs[1].status \notin Terminal /\ err.class \notin {"HTTPError", "KeyboardInterrupt"})
          => <>WaitTimedOut

C30_Witness ==
    /\ args.op = "wait" /\ WaitTimedOut
    /\ Cardinality(Exchanges("status")) = PollBound
    /\ PollBound >= 3
    /\ \A i \in 1 .. Len(log) : log[i].ok /\ log[i].body.status \notin Terminal

\* the fields of the schema a template was computed from
SchemaFields == {tmpl.schema[i] : i \in 1 .. Len(tmpl.schema)}

TemplateReturned == tmpl.done /\ pc = "returned"

\* the key the claim gives a field: the name, with "_id" for a foreign key
IdKey(f) ==
    IF f.foreign_key # "None" /\ f.name[Len(f.name)] # "_id"
    THEN f.name \o <<"_id">>
    ELSE f.name

\* C28: the template of get_template has no key for a primary-key field;
\* a foreign-key field appears under its name with the '_id' suffix, never
\* under a name without it; with include_optional = false the keys are those
\* of the fields that are not primary key and not (nullable and with a
\* default); with include_optional = true those of every field that is not
\* primary key.
C28_TemplateFields ==
    TemplateReturned =>
        LET keys == DOMAIN tmpl.template
            optional(f) == f.nullable # "False" /\ f.default # "None"
        IN  /\ \A f \in SchemaFields :
                  f.primary_key => f.name \notin keys /\ IdKey(f) \notin keys
            /\ \A f \in SchemaFields :
                  (f.foreign_key # "None" /\ ~f.primary_key) =>
                      /\ f.name \in keys => f.name[Len(f.name)] = "_id"
                      /\ (tmpl.include_optional \/ ~optional(f)) => IdKey(f) \in keys
            /\ ~tmpl.include_optional =>
                  keys = {IdKey(f) : f \in {g \in SchemaFields :
                                              ~g.primary_key /\ ~optional(g)}}
            /\ tmpl.include_optional =>
                  keys = {IdKey(f) : f \in {g \in SchemaFields : ~g.primary_key}}

C28_Witness ==
    /\ TemplateReturned /\ ~tmpl.include_optional
    /\ Len(tmpl.schema) = 3
    /\ \E f \in SchemaFields : f.primary_key
    /\ \E f \in SchemaFields :
          /\ ~f.primary_key /\ f.foreign_key # "None" /\ f.name = <<"site">>
          /\ <<"site", "_id">> \in DOMAIN tmpl.template
          /\ <<"site">> \notin DOMAIN tmpl.template
    /\ \E f \in SchemaFields :
          /\ ~f.primary_key /\ f.nullable = "absent" /\ f.default # "None"
          /\ f.name \notin DOMAIN tmpl.template

\* the paths the calls of the program have returned so far
ReturnedPaths ==
    {history[i].path : i \in 1 .. Len(history)}
        \cup (IF pc = "returned" THEN {result.path} ELSE {})

\* C26: the client never deletes a local file it has returned: after any
\* sequence of load, delete, export and check_export_cache calls, every path
\* returned in a result's 'path' so far still names an existing file.
C26_ReturnedFilesRemain ==
    \A p \in ReturnedPaths : p # 0 => files[p] # <<>>

C26_Witness ==
    /\ Len(history) = 1
    /\ history[1].entry = "export" /\ history[1].path \in TempPaths
    /\ pc = "returned" /\ args.entry = "export"
    /\ result.path \in TempPaths /\ result.path # history[1].path
    /\ files[history[1].path] # <<>>

\* the calls the push has made so far: those that ended, and the one under way
CallsMade ==
    [i \in 1 .. Len(history) |->
        [entry |-> history[i].entry, model |-> history[i].model,
         filters |-> history[i].filters]]
      \o (IF pc = "idle" THEN <<>>
          ELSE <<[entry |-> args.entry, model |-> args.model, filters |-> args.filters]>>)

PushPlan ==
    <<[entry |-> "load", model |-> "dcim.cable", filters |-> ""],
      [entry |-> "export", model |-> "dcim.cable",
       filters |-> "label__startswith=gpu-dc"],
      [entry |-> "load", model |-> "dcim.cabletermination", filters |-> ""]>>

\* C21: the cable push makes one bulk load of cables, then one export
\* filtered by the label prefix, then one bulk load of terminations, in that
\* order and whatever the number of cables; each call sends one submission;
\* the export starts only after the cable load returned 'completed', the
\* termination load only after the export returned its file; a call that
\* raised is the last one; a push that ends normally has made all three.
C21_PushOrder ==
    wf.step # "none" =>
        /\ Len(CallsMade) <= 3
        /\ CallsMade = SubSeq(PushPlan, 1, Len(CallsMade))
        /\ Cardinality(Exchanges("submit")) <= 1
        /\ \A i \in 1 .. Len(history) :
              (i < Len(CallsMade)) => ~history[i].raised
        /\ Len(CallsMade) >= 2 => history[1].status = "completed"
        /\ Len(CallsMade) >= 3 =>
              /\ history[2].path = OutputPath
              /\ files[OutputPath] # <<>>
        /\ (wf.step = "done" /\ wf.interfaces > 0) =>
              /\ Len(history) = 3
              /\ \A i \in 1 .. 3 : ~history[i].raised

C21_Witness ==
    /\ wf.step = "done" /\ wf.cables = 2
    /\ Len(history) = 3
    /\ history[3].status = "completed"
    /\ \E n \in 1 .. Len(jobs) : jobs[n].kind = "export" /\ jobs[n].status = "completed"

\* the two clients: the one running and the one suspended
Clients == {Context, sched.suspended}

\* the job a call submitted, by the answer to its submission
OwnJob(c) == c.log[1].body.job_id

Waited(c) == \E i \in 1 .. Len(c.log) : c.log[i].kind = "status"

\* C27: with two clients running load, delete and export against one
\* service, each call polls only the job its own submission returned, returns
\* or raises by the status of that job only, and two exports with
\* output_path = None return different local paths, each holding what its
\* own call downloaded.
C27_ClientsIndependent ==
    sched.suspended # <<>> =>
        /\ \A c \in Clients :
              /\ c.job_id # "" => c.job_id = OwnJob(c)
              /\ \A i \in 1 .. Len(c.log) :
                    c.log[i].kind = "status" =>
                        c.log[i].url = api_base \o <<"jobs", OwnJob(c)>>
              /\ (Waited(c) /\ c.pc \in {"returned", "download"}) =>
                    jobs[JobIndex(OwnJob(c))].status = "completed"
              /\ (Waited(c) /\ c.pc = "returned" /\ c.args.op # "export") =>
                    c.result = c.log[Len(c.log)].body
              /\ (c.pc = "raised" /\ c.err.class = "JobFailedError") =>
                    /\ jobs[JobIndex(OwnJob(c))].status \in {"errored", "failed"}
                    /\ c.err.job_result = c.log[Len(c.log)].body
        /\ \A c \in Clients, d \in Clients :
              (/\ c.pc = "returned" /\ d.pc = "returned"
               /\ c.result.path # 0 /\ d.result.path # 0
               /\ c.result.path = d.result.path) => c = d
        /\ \A c \in Clients :
              (c.pc = "returned" /\ c.result.path # 0) =>
                  files[c.result.path] = c.log[Len(c.log)].url

C27_Witness ==
    /\ sched.suspended # <<>>
    /\ pc = "returned" /\ sched.suspended.pc = "returned"
    /\ args.op = "export" /\ sched.suspended.args.op = "export"
    /\ Waited(Context) /\ Waited(sched.suspended)
    /\ OwnJob(Context) # OwnJob(sched.suspended)
    /\ result.path \in TempPaths /\ sched.suspended.result.path \in TempPaths
    /\ result.path # sched.suspended.result.path

\* the answer to the submission of the call
Submitted == log[1].body

\* C31 as stated: load, delete and export return the submission response as
\* it is when wait = false.
C31_ResponseAsIs ==
    (/\ args.op \in {"load", "delete", "export"} /\ pc = "returned"
     /\ ~args.wait /\ log # <<>>) =>
        result = Submitted

\* C31: with wait = false, or (load and delete) with a response that has no
\* job_id, the call makes no status poll; load and delete return the
\* submission response as it is, export returns it with status_code added
\* (and cached on 304), and on a cache hit with the path of the file it
\* downloaded; a status poll is made only with wait = true and a job_id in
\* the response.
C31_ReturnsWithoutPoll ==
    (args.op \in {"load", "delete", "export"} /\ log # <<>>) =>
        /\ (args.op \in {"load", "delete"} /\ pc = "returned"
            /\ (~args.wait \/ Submitted.job_id = "")) =>
              /\ result = Submitted
              /\ Len(log) = 1
        /\ (args.op = "export" /\ pc = "returned" /\ ~args.wait) =>
              /\ Exchanges("status") = {}
              /\ result.status_code = log[1].code
              /\ [result EXCEPT !.status_code = Submitted.status_code,
                                !.cached = Submitted.cached,
                                !.path = Submitted.path] = Submitted
              /\ result.cached # Submitted.cached => log[1].code = 304
              /\ result.path # 0 =>
                    /\ Truthy(Submitted.cached)
                    /\ Cardinality(Exchanges("download")) = 1
        /\ Exchanges("status") # {} =>
              /\ args.wait
              /\ log[1].ok /\ Submitted.job_id # ""

C31_Witness ==
    /\ args.op = "load" /\ pc = "returned"
    /\ ~args.wait /\ Submitted.job_id # ""
    /\ result = Submitted
    /\ jobs # <<>> /\ jobs[1].status = "running"

\* the normal form of a download URL: a path is joined to base_url
Absolute(url) == IF Head(url) = "/" THEN <<base_url>> \o url ELSE url

\* C32: a fresh export downloads from the job result's download_url if
\* present, else from its file_url if present, else from
\* {api_base}/jobs/{job_id}/download/; it sends exactly one download request
\* and returns the job result with cached = false and path set to the file
\* written.
C32_FreshDownload ==
    (args.op = "export" /\ pc = "returned" /\ Exchanges("status") # {}) =>
        LET n == Len(log)
            jr == log[n - 1].body
            wanted == IF jr.download_url # <<>> THEN jr.download_url
                      ELSE IF jr.file_url # <<>> THEN jr.file_url
                      ELSE api_base \o <<"jobs", Submitted.job_id, "download/">>
        IN  /\ Cardinality(Exchanges("download")) = 1
            /\ log[n].kind = "download" /\ log[n - 1].kind = "status"
            /\ jr.status = "completed"
            /\ log[n].url = Absolute(wanted)
            /\ result = [jr EXCEPT !.cached = "false", !.path = result.path]
            /\ result.path \in Paths
            /\ files[result.path] = ServerDownload(log[n].url)

C32_Witness ==
    /\ args.op = "export" /\ pc = "returned" /\ Exchanges("status") # {}
    /\ log[Len(log) - 1].body.download_url # <<>>
    /\ log[Len(log) - 1].body.file_url # <<>>
    /\ log[Len(log)].url = Absolute(log[Len(log) - 1].body.download_url)
    /\ result.cached = "false" /\ result.path \in TempPaths

\* C34: an export whose job ends errored or failed, or whose wait times
\* out, raises without a download request and without a local file created
\* or written; a local file is written only after a poll observed
\* 'completed' or the service answered the submission with a cache hit.
C34_NoFileWithoutCompletion ==
    args.op = "export" =>
        /\ (pc = "raised" /\ err.class \in {"JobFailedError", "TurboBulkError"}) =>
              /\ Exchanges("download") = {}
              /\ NoFileWritten
        /\ (~NoFileWritten \/ Exchanges("download") # {}) =>
              \/ \E i \in Exchanges("status") : log[i].ok /\ log[i].body.status = "completed"
              \/ /\ log[1].ok /\ log[1].code = 200 /\ Truthy(Submitted.cached)
                 /\ Exchanges("status") = {}

C34_Witness ==
    /\ args.op = "export" /\ pc = "raised" /\ err.class = "JobFailedError"
    /\ Exchanges("status") # {}
    /\ LastExchange.body.status = "errored"
    /\ Exchanges("download") = {} /\ NoFileWritten

\* C36: the deadline is tested only at the start of an iteration, before
\* the poll: an iteration that starts with elapsed <= timeout polls, and a
\* terminal status it observes decides the wait (completed: the result or the
\* download; errored or failed: JobFailedError) even when the deadline has
\* passed once the poll is answered; the timeout error is raised only at the
\* start of an iteration with elapsed > timeout, without a poll.
C36_Step ==
    (pc = "loop" /\ ClientStep) =>
        /\ now - start_time <= args.timeout =>
              /\ Polled
              /\ (log'[Len(log')].ok /\ log'[Len(log')].body.status = "completed") =>
                    IF args.op = "export" THEN pc' = "download"
                    ELSE pc' = "returned" /\ result' = log'[Len(log')].body
              /\ (log'[Len(log')].ok
                  /\ log'[Len(log')].body.status \in {"errored", "failed"}) =>
                    /\ pc' = "raised" /\ err'.class = "JobFailedError"
                    /\ err'.job_result = log'[Len(log')].body
        /\ (pc' = "raised" /\ err'.class = "TurboBulkError") =>
              /\ now - start_time > args.timeout
              /\ log' = log /\ now' = now

C36_TerminalStatusDecides == [][C36_Step]_vars

C36_Witness ==
    /\ args.op = "load" /\ pc = "returned"
    /\ now - start_time > args.timeout
    /\ LastExchange.kind = "status" /\ result = LastExchange.body
    /\ result.status = "completed"

\* the pages of the endpoint, by the offset of their first object
ChainLength ==
    (pager.server.total + pager.server.size - 1) \div pager.server.size

\* C33 as stated: rest_get_all fetches each page once, and what it has
\* gathered is the objects of the pages fetched so far, in order, for every
\* server whose pages form a finite chain of next links.
C33_EachPageOnce ==
    pager.pc # "none" =>
        /\ \A i \in 1 .. Len(pager.fetched), j \in 1 .. Len(pager.fetched) :
              pager.fetched[i] = pager.fetched[j] => i = j
        /\ Len(pager.fetched) <= (IF ChainLength = 0 THEN 1 ELSE ChainLength)
        /\ pager.pc = "returned" =>
              pager.results = [i \in 1 .. pager.server.total |-> i]

\* C35 as stated: in the output of generate_cables, for every valid
\* TopologySpec, no interface is the endpoint of more than one cable: no two
\* staged cables name the same interface key, and no two termination rows
\* carry the same interface ID.
C35_NoSharedInterface ==
    (stage = "cables" /\ Valid(topo)) =>
        /\ \A i \in DOMAIN staging, j \in DOMAIN staging :
              i # j => {staging[i].a_key, staging[i].b_key}
                          \cap {staging[j].a_key, staging[j].b_key} = {}
        /\ \A i \in DOMAIN terminations, j \in DOMAIN terminations :
              terminations[i].termination_id = terminations[j].termination_id => i = j

\* a step of _download_export_file whose request got an error status
FailedDownload ==
    /\ pc = "download"
    /\ Len(log') = Len(log) + 1
    /\ log'[Len(log')].kind = "download"
    /\ ~log'[Len(log')].ok

\* C39: if the download request of _download_export_file fails, the call
\* raises before any local file is created or written: no temporary file
\* appears and the file at output_path, if there is one, keeps its content.
C39_Step ==
    FailedDownload =>
        /\ pc' = "raised" /\ err' = HTTPError
        /\ files' = files

C39_FailedDownloadWritesNothing == [][C39_Step]_vars

C39_Witness ==
    /\ Len(history) = 1
    /\ history[1].entry = "export" /\ history[1].path = OutputPath
    /\ args.entry = "export" /\ args.output_path = OutputPath
    /\ pc = "raised" /\ err = HTTPError
    /\ LastExchange.kind = "download" /\ ~LastExchange.ok
    /\ files[OutputPath] # <<>>
    /\ files[OutputPath] # ServerDownload(LastExchange.url)
    /\ \A p \in TempPaths : files[p] = <<>>

\* the labels of the terminations that have a cable ID in the map
BoundLabels(terms, l2c) ==
    DOMAIN l2c \cap {terms[i]._label : i \in DOMAIN terms}

\* C38: binding never splits a cable: in the output of
\* update_terminations_with_cable_ids applied to the terminations of
\* generate_cables, the A and B rows of a staged cable are both present,
\* adjacent and with the same cable_id, or both absent; and the call leaves
\* terminations and label_to_cable_id as they were given.  The rows of the
\* output come in pairs A, B with one cable_id, each cable_id in one pair, and
\* the cable_ids are those the map, read after the call, gives the labels of
\* the terminations, read after the call.
C38_Step ==
    (stage = "cables" /\ stage' = "updated") =>
        LET out == updated'
            ids == {out[k].cable_id : k \in DOMAIN out}
            bound == BoundLabels(terminations', label_to_cable_id')
        IN  /\ terminations' = terminations
            /\ Len(out) % 2 = 0
            /\ \A k \in DOMAIN out :
                  k % 2 = 1 =>
                      /\ out[k].cable_end = "A" /\ out[k + 1].cable_end = "B"
                      /\ out[k + 1].cable_id = out[k].cable_id
            /\ ids = {label_to_cable_id'[lb] : lb \in bound}
            /\ 2 * Cardinality(ids) = Len(out)

C38_BindingNeverSplits == [][C38_Step]_vars

C38_Witness ==
    /\ stage = "updated"
    /\ Len(updated) >= 4
    /\ Len(updated) < Len(terminations)
    /\ Len(terminations) < 2 * Len(staging)
    /\ updated[1].cable_id = updated[2].cable_id
    /\ updated[3].cable_id # updated[2].cable_id
    /\ \E i \in DOMAIN terminations :
          terminations[i]._label \notin DOMAIN label_to_cable_id

\* the ID-recovery export of the push has returned
PushExportReturned ==
    /\ wf.step = "export" /\ pc = "returned" /\ args.entry = "export"
    /\ Len(history) = 1 /\ history[1].entry = "load" /\ ~history[1].raised

\* the URLs of cached snapshots
CachedUrls == {<<base_url>> \o CacheUrl(k) : k \in CacheKeys}

\* C37: in the push workflow the ID-recovery export never returns a cached
\* snapshot taken before the cable load: when it returns, the cable load has
\* been committed, the result is that of an export job created after it, and
\* the file read for the label-to-ID map is that job's download.
C37_ExportSeesLoadedCables ==
    PushExportReturned =>
        /\ result.cached = "false"
        /\ result.path = OutputPath
        /\ files[OutputPath] # <<>> /\ files[OutputPath] \notin CachedUrls
        /\ job_id # ""
        /\ jobs[JobIndex(job_id)].kind = "export"
        /\ jobs[JobIndex(job_id)].status = "completed"
        /\ \A n \in 1 .. Len(jobs) :
              jobs[n].kind = "load" =>
                  n < JobIndex(job_id) /\ jobs[n].status = "completed"

C37_Witness ==
    /\ PushExportReturned
    /\ Len(jobs) = 2
    /\ jobs[1].kind = "load" /\ jobs[1].status = "completed"
    /\ job_id = JobId(2)
    /\ cache # ""
    /\ files[OutputPath] \notin CachedUrls

====
